---- MODULE Spec2Model ----
(***************************************************************************)
(* Context envelope assembly and context-aware model routing of the        *)
(* q-and-a-orchestra-agent: the domain adapter's path confinement, the     *)
(* envelope builder's fail-open pipeline, and the router's selection,      *)
(* filtering and fallback search.                                          *)
(*                                                                         *)
(* Paths are sequences of one-character strings, so that substring tests,  *)
(* os.path.normpath and os.path.join are computed as the code computes     *)
(* them.  A path that Python holds as None or "" is the empty sequence:    *)
(* every test the code makes of such a value is a truthiness test.         *)
(***************************************************************************)
EXTENDS Integers, Sequences, FiniteSets, TLC

VARIABLES
    \* one run of the domain adapter (build_domain_context)
    dpc,              \* "start" | "validated" | "done"
    repo_path,        \* request_context["repository_path"]
    fs,               \* what the filesystem holds at the resolved path
    validated_path,   \* validate_repo_path's result (NoPath: None)
    domain_context,   \* the DomainContext under construction
    examined,         \* filesystem locations looked at after validation
    \* one request to the router (select_and_invoke_with_context)
    rpc,              \* position in plan_with_context / select_and_invoke_with_context
    registry,         \* ModelRegistry: the registered models, in registration order
    ctx,              \* the fields of the ContextEnvelope the router reads
    dry_run,          \* ContextAwareModelRouter.dry_run
    choice,           \* the ScoredModel in hand (NoChoice: None)
    stages,           \* the selection stages passed so far
    telemetry,        \* the Telemetry calls made, in order
    invoked,          \* the providers whose client.invoke was called
    \* one call of build_context_envelope
    bpc,              \* the stage about to run: "user" .. "exposition", then "done";
                      \* "awaiting" inside a collaborator call that has not returned
    inp,              \* the call's arguments and what its collaborators will do
    layers,           \* the layers built so far
    envelope,         \* the ContextEnvelope returned (NoEnvelope: none yet)
    build_outcome,    \* "pending" | "returned" | "raised"
    failed_stage,     \* the stage whose exception reached the handler, or "none"
    raised,           \* the message of that exception (NoMessage: none)
    budget_max,       \* max_tokens of the apply_token_budget calls (0: not called)
    budgeted,         \* the envelope after each apply_token_budget call, in order
    \* one call of detect_intent
    ipc,              \* "start" | "done"
    message,          \* the message text
    task_type,        \* the task-type hint (NoHint: None)
    detected,         \* the IntentContext returned
    \* one call of sanitize_error_message
    spc,                     \* "start" | "done"
    sanitize_error_messages, \* SECURITY_CONFIG["sanitize_error_messages"]
    error_message,           \* the message passed in
    sanitized,               \* the message returned
    \* several calls of build_context_envelope in one process
    ppc,              \* per build: the stage about to run
    pair_in,          \* the analyzer's behaviour and each build's arguments
    heap,             \* the dict objects: object -> the keys it holds
    held,             \* per build: the object its domain.key_components refers to
    \* one call of _adjust_parameters_with_context
    apc,              \* "start" | "done"
    params,           \* the caller's parameter map (kwargs)
    param_ctx,        \* the fields of the envelope the adjustment reads
    adjusted          \* the map returned

domainVars == <<dpc, repo_path, fs, validated_path, domain_context, examined>>

routerVars == <<rpc, registry, ctx, dry_run, choice, stages, telemetry, invoked>>

buildVars == <<bpc, inp, layers, envelope, build_outcome, failed_stage,
               raised, budget_max, budgeted>>

intentVars == <<ipc, message, task_type, detected>>

sanitizeVars == <<spc, sanitize_error_messages, error_message, sanitized>>

\* the variables of the operations modelled on their own
pairVars == <<ppc, pair_in, heap, held>>

paramVars == <<apc, params, param_ctx, adjusted>>

extraVars == <<sanitizeVars, pairVars, paramVars>>

vars == <<dpc, repo_path, fs, validated_path, domain_context, examined,
          rpc, registry, ctx, dry_run, choice, stages, telemetry, invoked,
          bpc, inp, layers, envelope, build_outcome, failed_stage,
          raised, budget_max, budgeted,
          ipc, message, task_type, detected,
          spc, sanitize_error_messages, error_message, sanitized,
          ppc, pair_in, heap, held,
          apc, params, param_ctx, adjusted>>

----------------------------------------------------------------------------
(* Bounds *)

MaxPathLen == 6

MaxRegistry == 2

MaxFaults == 1

MaxApplications == 2

MaxWords == 2

MaxErrorWords == 2

MaxBuilds == 2

----------------------------------------------------------------------------
(* Strings as character sequences *)

NoPath == <<>>

\* a task-type hint that Python holds as None or ""
NoHint == <<>>

PathChars == {".", "/", "h", "g"}

RECURSIVE SeqsUpTo(_, _)
SeqsUpTo(S, n) ==
    IF n = 0 THEN {<<>>}
    ELSE LET shorter == SeqsUpTo(S, n - 1)
         IN  shorter \cup {Append(s, c) : s \in {t \in shorter : Len(t) = n - 1}, c \in S}

StartsWith(s, p) == Len(p) <= Len(s) /\ SubSeq(s, 1, Len(p)) = p

EndsWith(s, p) == Len(p) <= Len(s) /\ SubSeq(s, Len(s) - Len(p) + 1, Len(s)) = p

\* Python's `p in s` on strings
Contains(s, p) ==
    \E i \in 1..(Len(s) - Len(p) + 1) : SubSeq(s, i, i + Len(p) - 1) = p

RECURSIVE SplitFrom(_, _, _)
SplitFrom(s, i, cur) ==
    IF i > Len(s) THEN <<cur>>
    ELSE IF s[i] = "/" THEN <<cur>> \o SplitFrom(s, i + 1, <<>>)
    ELSE SplitFrom(s, i + 1, Append(cur, s[i]))

\* s.split('/')
Split(s) == SplitFrom(s, 1, <<>>)

RECURSIVE JoinFrom(_, _)
JoinFrom(comps, i) ==
    IF i > Len(comps) THEN <<>>
    ELSE IF i = Len(comps) THEN comps[i]
    ELSE comps[i] \o <<"/">> \o JoinFrom(comps, i + 1)

\* '/'.join(comps)
SlashJoin(comps) == JoinFrom(comps, 1)

DotDot == <<".", ".">>

RECURSIVE NormFold(_, _, _, _)
NormFold(comps, i, acc, initial_slashes) ==
    IF i > Len(comps) THEN acc
    ELSE LET comp == comps[i] IN
         IF comp = <<>> \/ comp = <<".">>
         THEN NormFold(comps, i + 1, acc, initial_slashes)
         ELSE IF \/ comp # DotDot
                 \/ (initial_slashes = 0 /\ acc = <<>>)
                 \/ (acc # <<>> /\ acc[Len(acc)] = DotDot)
         THEN NormFold(comps, i + 1, Append(acc, comp), initial_slashes)
         ELSE IF acc # <<>>
         THEN NormFold(comps, i + 1, SubSeq(acc, 1, Len(acc) - 1), initial_slashes)
         ELSE NormFold(comps, i + 1, acc, initial_slashes)

InitialSlashes(path) ==
    IF ~StartsWith(path, <<"/">>) THEN 0
    ELSE IF StartsWith(path, <<"/", "/">>) /\ ~StartsWith(path, <<"/", "/", "/">>) THEN 2
    ELSE 1

\* os.path.normpath (posixpath)
Normpath(path) ==
    IF path = <<>> THEN <<".">>
    ELSE LET n      == InitialSlashes(path)
             comps  == NormFold(Split(path), 1, <<>>, n)
             joined == SlashJoin(comps)
             out    == (IF n = 0 THEN <<>> ELSE IF n = 1 THEN <<"/">> ELSE <<"/", "/">>)
                       \o joined
         IN  IF out = <<>> THEN <<".">> ELSE out

\* os.path.join(a, b) (posixpath)
PathJoin(a, b) ==
    IF StartsWith(b, <<"/">>) THEN b
    ELSE IF a = <<>> \/ EndsWith(a, <<"/">>) THEN a \o b
    ELSE a \o <<"/">> \o b

\* the process's working directory, used by os.path.abspath on a relative path
Cwd == <<"/", "a", "p", "p">>

\* os.path.abspath (posixpath)
Abspath(path) ==
    Normpath(IF StartsWith(path, <<"/">>) THEN path ELSE PathJoin(Cwd, path))

----------------------------------------------------------------------------
(* config/security_config.py *)

\* SECURITY_CONFIG["allowed_repo_base_dir"], ALLOWED_REPO_BASE_DIR's default
BaseDir == <<"/", "t", "m", "p", "/", "r", "e", "p", "o", "s">>

\* SECURITY_CONFIG["max_repo_path_length"]
MaxRepoPathLength == 256

\* SECURITY_CONFIG["blocked_file_patterns"], in list order
BlockedFilePatterns == <<
    <<".", "e", "n", "v">>,
    <<".", "e", "n", "v", ".", "*">>,
    <<"*", ".", "k", "e", "y">>,
    <<"*", ".", "p", "e", "m">>,
    <<"*", ".", "p", "1", "2">>,
    <<"i", "d", "_", "r", "s", "a">>,
    <<"i", "d", "_", "e", "d", "2", "5", "5", "1", "9">>,
    <<".", "g", "i", "t", "/">>,
    <<".", "s", "v", "n", "/">>,
    <<".", "h", "g", "/">>,
    <<"_", "_", "p", "y", "c", "a", "c", "h", "e", "_", "_", "/">>,
    <<"*", ".", "p", "y", "c">>,
    <<"n", "o", "d", "e", "_", "m", "o", "d", "u", "l", "e", "s", "/">>,
    <<".", "n", "p", "m", "/">>,
    <<".", "v", "e", "n", "v", "/">>,
    <<"v", "e", "n", "v", "/">>,
    <<"e", "n", "v", "/">>,
    <<"*", ".", "l", "o", "g">>,
    <<"*", ".", "t", "m", "p">>
>>

ContainsBlockedPattern(path) ==
    \E k \in 1..Len(BlockedFilePatterns) : Contains(path, BlockedFilePatterns[k])

\* validate_repo_path_security(repo_path)["valid"]
ValidateRepoPathSecurity(path) ==
    IF path = <<>> THEN FALSE
    ELSE IF Len(path) > MaxRepoPathLength THEN FALSE
    ELSE LET normalized == Normpath(path) IN
         IF Contains(normalized, DotDot) \/ StartsWith(normalized, <<"/">>) THEN FALSE
         ELSE IF ContainsBlockedPattern(path) THEN FALSE
         ELSE TRUE

\* is_safe_file(file_path) for file_path = os.path.join(dir, name), name one of the
\* marker names the scan looks for.  None of those names holds a blocked pattern,
\* starts with ".env." or carries a suffix outside allowed_file_extensions, so the
\* answer rests on the directory part alone (patterns ending in "*" are tested
\* against the file name only).
IsSafeFile(dir) ==
    ~\E k \in 1..Len(BlockedFilePatterns) :
        /\ ~EndsWith(BlockedFilePatterns[k], <<"*">>)
        /\ Contains(dir \o <<"/">>, BlockedFilePatterns[k])

\* str.lower on the letters the model's texts use
Uppers == <<"A", "B", "C", "D", "E", "F", "G", "H", "I", "J", "K", "L", "M", "N", "O", "P", "Q", "R", "S", "T", "U", "V", "W", "X", "Y", "Z">>

Lowers == <<"a", "b", "c", "d", "e", "f", "g", "h", "i", "j", "k", "l", "m", "n", "o", "p", "q", "r", "s", "t", "u", "v", "w", "x", "y", "z">>

LowerChar(c) ==
    IF \E i \in 1..Len(Uppers) : Uppers[i] = c
    THEN Lowers[CHOOSE i \in 1..Len(Uppers) : Uppers[i] = c]
    ELSE c

Lower(s) == [i \in 1..Len(s) |-> LowerChar(s[i])]

\* SECURITY_CONFIG["sensitive_keywords"]
SensitiveKeywords ==
    { <<"p", "a", "s", "s", "w", "o", "r", "d">>,
      <<"p", "a", "s", "s", "w", "d">>,
      <<"p", "w", "d">>,
      <<"s", "e", "c", "r", "e", "t">>,
      <<"s", "e", "c", "r", "e", "t", "s">>,
      <<"t", "o", "k", "e", "n">>,
      <<"t", "o", "k", "e", "n", "s">>,
      <<"j", "w", "t">>,
      <<"k", "e", "y">>,
      <<"p", "r", "i", "v", "a", "t", "e", "_", "k", "e", "y">>,
      <<"a", "p", "i", "_", "k", "e", "y">>,
      <<"c", "r", "e", "d", "e", "n", "t", "i", "a", "l">>,
      <<"c", "r", "e", "d", "e", "n", "t", "i", "a", "l", "s">>,
      <<"a", "u", "t", "h">>,
      <<"a", "u", "t", "h", "o", "r", "i", "z", "a", "t", "i", "o", "n">>,
      <<"s", "e", "s", "s", "i", "o", "n">>,
      <<"c", "o", "o", "k", "i", "e">>,
      <<"d", "a", "t", "a", "b", "a", "s", "e">>,
      <<"d", "b">>,
      <<"s", "q", "l">>,
      <<"i", "n", "t", "e", "r", "n", "a", "l">>,
      <<"s", "t", "a", "c", "k", " ", "t", "r", "a", "c", "e">> }

\* "Internal server error"
GenericErrorMessage == <<"I", "n", "t", "e", "r", "n", "a", "l", " ", "s", "e", "r", "v", "e", "r", " ", "e", "r", "r", "o", "r">>

\* a sanitizer that tests the keywords against the message as written
SanitizeErrorMessage_CaseSensitive(msg) ==
    IF \E keyword \in SensitiveKeywords : Contains(msg, keyword)
    THEN GenericErrorMessage
    ELSE IF Contains(msg, <<"/">>) \/ Contains(msg, <<"\\">>)
    THEN GenericErrorMessage
    ELSE IF Contains(msg, <<"t", "r", "a", "c", "e", "b", "a", "c", "k">>) \/ Contains(msg, <<"l", "i", "n", "e", " ">>)
    THEN GenericErrorMessage
    ELSE msg

\* sanitize_error_message(message), with sanitize_error_messages at its default
SanitizeErrorMessage(msg) ==
    LET message_lower == Lower(msg) IN
    IF \E keyword \in SensitiveKeywords : Contains(message_lower, keyword)
    THEN GenericErrorMessage
    ELSE IF Contains(msg, <<"/">>) \/ Contains(msg, <<"\\">>)
    THEN GenericErrorMessage
    ELSE IF Contains(message_lower, <<"t", "r", "a", "c", "e", "b", "a", "c", "k">>) \/ Contains(message_lower, <<"l", "i", "n", "e", " ">>)
    THEN GenericErrorMessage
    ELSE msg

----------------------------------------------------------------------------
(* context_engineering/sources/domain_graph.py *)

\* validate_repo_path with the two confinement checks left out: the joined path is
\* resolved and returned as it is
ValidateRepoPath_Unchecked(path) ==
    IF path = <<>> THEN NoPath
    ELSE Abspath(PathJoin(BaseDir, path))

\* validate_repo_path(repo_path): the resolved path, or NoPath for None
ValidateRepoPath(path) ==
    IF path = <<>> THEN NoPath
    ELSE IF ~ValidateRepoPathSecurity(path) THEN NoPath
    ELSE LET full_path == Abspath(PathJoin(BaseDir, path)) IN
         IF ~StartsWith(full_path, Abspath(BaseDir)) THEN NoPath
         ELSE full_path

InvalidSummary == "Invalid repository path"

\* DomainContext as build_domain_context first constructs it
InitialDomainContext(path) ==
    [repo_path      |-> path,
     repo_summary   |-> "None",
     key_components |-> {},
     related_docs   |-> {},
     entity_relationships |-> [components |-> {}, edges |-> {}]]

\* safe_patterns of _basic_repo_analysis, in dict order: marker name, component type
SafePatterns == <<
    <<"package.json", "frontend">>,
    <<"requirements.txt", "backend">>,
    <<"pyproject.toml", "backend">>,
    <<"Dockerfile", "containerization">>,
    <<"docker-compose.yml", "orchestration">>,
    <<"migrations", "database">>,
    <<"alembic", "database">>,
    <<"README.md", "documentation">> >>

\* the component types _basic_repo_analysis has a branch for
HandledComponentTypes ==
    {"frontend", "backend", "containerization", "orchestration", "database"}

SafeTestDirs == <<"tests", "test", "__tests__", "spec">>

DocDirs == <<"docs", "documentation">>

\* index of the first test directory that exists, 0 if none
FirstTestDir(files) ==
    IF \E i \in 1..Len(SafeTestDirs) : SafeTestDirs[i] \in files.dirs
    THEN CHOOSE i \in 1..Len(SafeTestDirs) :
            /\ SafeTestDirs[i] \in files.dirs
            /\ \A j \in 1..(i - 1) : SafeTestDirs[j] \notin files.dirs
    ELSE 0

\* the locations _basic_repo_analysis hands to os.path.isfile / os.path.isdir
BasicAnalysisLocations(dir, files) ==
    LET t == FirstTestDir(files) IN
    {[dir |-> dir, name |-> SafePatterns[i][1]] : i \in 1..Len(SafePatterns)}
    \cup {[dir |-> dir, name |-> SafeTestDirs[i]] :
             i \in 1..(IF t = 0 THEN Len(SafeTestDirs) ELSE t)}
    \cup {[dir |-> dir, name |-> DocDirs[i]] : i \in 1..Len(DocDirs)}

\* _basic_repo_analysis(domain_context, repo_path)
BasicRepoAnalysis(dc, dir, files) ==
    LET components ==
            {SafePatterns[i][2] : i \in {j \in 1..Len(SafePatterns) :
                /\ SafePatterns[j][1] \in files.files
                /\ IsSafeFile(dir)
                /\ SafePatterns[j][2] \in HandledComponentTypes}}
            \cup (IF FirstTestDir(files) # 0 THEN {"testing"} ELSE {})
        docs ==
            {DocDirs[i] : i \in {j \in 1..Len(DocDirs) : DocDirs[j] \in files.dirs}}
            \cup (IF "README.md" \in files.files /\ IsSafeFile(dir)
                  THEN {"README.md"} ELSE {})
    IN  [dc EXCEPT !.repo_summary   = "Repository with components",
                   !.key_components = components,
                   !.related_docs   = docs]

\* what an injected repo_analyzer_client's get_repo_summary answers with
AnalyzerComponents == {"frontend", "backend"}

AnalyzerDocs == {"README.md"}

\* _analyze_repository(domain_context, repo_path, repo_analyzer_client); analyzer is
\* "none" (no client), "ok" (the client answers), "empty" (it answers with nothing)
\* or "fails" (it raises)
AnalyzeRepository(dc, dir, files, analyzer) ==
    CASE analyzer = "none"  -> BasicRepoAnalysis(dc, dir, files)
      [] analyzer = "ok"    -> [dc EXCEPT !.repo_summary   = "analyzer summary",
                                          !.key_components = AnalyzerComponents,
                                          !.related_docs   = AnalyzerDocs]
      [] analyzer = "fails" -> [dc EXCEPT !.repo_summary = "Repository analysis failed"]
      [] OTHER              -> dc

\* the part of build_domain_context after validation, for a path that is set
DomainAfterValidation(dc, validated, files, analyzer) ==
    IF validated # NoPath /\ files.exists
    THEN [AnalyzeRepository(dc, validated, files, analyzer) EXCEPT !.repo_path = validated]
    ELSE [dc EXCEPT !.repo_summary = InvalidSummary]

\* _build_entity_relationships(domain_context): the component list and the
\* edges inferred from it (an empty component map yields neither)
BuildEntityRelationships(dc) ==
    [components |-> dc.key_components,
     edges |-> (IF {"frontend", "backend"} \subseteq dc.key_components
                THEN {"frontend_backend"} ELSE {})
               \cup (IF {"database", "backend"} \subseteq dc.key_components
                     THEN {"backend_database"} ELSE {})]

\* line 84: the relationship map is derived from the layer as it then is
WithRelationships(dc) == [dc EXCEPT !.entity_relationships = BuildEntityRelationships(dc)]

\* build_domain_context(request_context, repo_analyzer_client)
BuildDomainContext(path, files, analyzer) ==
    WithRelationships(
        IF path # <<>>
        THEN DomainAfterValidation(InitialDomainContext(path), ValidateRepoPath(path),
                                   files, analyzer)
        ELSE InitialDomainContext(path))

----------------------------------------------------------------------------
(* One run of the domain adapter, step by step *)

NoFiles == [exists |-> FALSE, files |-> {}, dirs |-> {}]

FsStates ==
    { NoFiles,
      [exists |-> TRUE, files |-> {}, dirs |-> {}],
      [exists |-> TRUE,
       files  |-> {"package.json", "requirements.txt", "README.md"},
       dirs   |-> {"test", "docs"}] }

\* the router at rest, for the specifications that do not run it
RouterIdle ==
    /\ rpc = "idle"
    /\ registry = <<>>
    /\ ctx = [environment |-> "development"]
    /\ dry_run = FALSE
    /\ choice = [found |-> FALSE]
    /\ stages = <<>>
    /\ telemetry = <<>>
    /\ invoked = {}

NoEnvelope == [built |-> FALSE]

\* the envelope builder at rest, for the specifications that do not run it
BuildIdle ==
    /\ bpc = "idle"
    /\ inp = [faults |-> {}]
    /\ layers = [set |-> {}]
    /\ envelope = NoEnvelope
    /\ build_outcome = "pending"
    /\ failed_stage = "none"
    /\ raised = <<>>
    /\ budget_max = 0
    /\ budgeted = <<>>

\* detect_intent at rest, for the specifications that do not run it on its own
IntentIdle ==
    /\ ipc = "idle"
    /\ message = <<>>
    /\ task_type = <<>>
    /\ detected = [set |-> FALSE]

\* sanitize_error_message at rest
SanitizeIdle ==
    /\ spc = "idle"
    /\ sanitize_error_messages = TRUE
    /\ error_message = <<>>
    /\ sanitized = <<>>

\* no concurrent builds
PairIdle ==
    /\ ppc = <<>>
    /\ pair_in = [analyzer |-> "none"]
    /\ heap = <<>>
    /\ held = <<>>

\* _adjust_parameters_with_context at rest
ParamIdle ==
    /\ apc = "idle"
    /\ params = <<>>
    /\ param_ctx = [expertise_level |-> "None"]
    /\ adjusted = <<>>

ExtraIdle == SanitizeIdle /\ PairIdle /\ ParamIdle

InitPath ==
    /\ IntentIdle
    /\ ExtraIdle
    /\ RouterIdle
    /\ BuildIdle
    /\ dpc = "start"
    /\ repo_path \in SeqsUpTo(PathChars, MaxPathLen)
    /\ fs \in FsStates
    /\ validated_path = NoPath
    /\ domain_context = InitialDomainContext(repo_path)
    /\ examined = {}

\* lines 70-72: validate the path, then ask whether the resolved path exists
ValidateStep ==
    /\ dpc = "start"
    /\ repo_path # <<>>
    /\ validated_path' = ValidateRepoPath(repo_path)
    /\ examined' = IF validated_path' # NoPath
                   THEN {[dir |-> validated_path', name |-> ""]}
                   ELSE {}
    /\ dpc' = "validated"
    /\ UNCHANGED <<repo_path, fs, domain_context>>
    /\ UNCHANGED <<routerVars, buildVars, intentVars, extraVars>>

\* lines 73-74: the resolved path exists and is analysed
AnalyzeStep ==
    /\ dpc = "validated"
    /\ validated_path # NoPath /\ fs.exists
    /\ domain_context' =
          WithRelationships(DomainAfterValidation(domain_context, validated_path, fs, "none"))
    /\ examined' = examined \cup BasicAnalysisLocations(validated_path, fs)
    /\ dpc' = "done"
    /\ UNCHANGED <<repo_path, fs, validated_path>>
    /\ UNCHANGED <<routerVars, buildVars, intentVars, extraVars>>

\* lines 75-77: the path is invalid or inaccessible
RejectStep ==
    /\ dpc = "validated"
    /\ ~(validated_path # NoPath /\ fs.exists)
    /\ domain_context' =
          WithRelationships(DomainAfterValidation(domain_context, validated_path, fs, "none"))
    /\ dpc' = "done"
    /\ UNCHANGED <<repo_path, fs, validated_path, examined>>
    /\ UNCHANGED <<routerVars, buildVars, intentVars, extraVars>>

\* line 70: no path in the request context
NoPathStep ==
    /\ dpc = "start"
    /\ repo_path = <<>>
    /\ dpc' = "done"
    /\ UNCHANGED <<repo_path, fs, validated_path, domain_context, examined>>
    /\ UNCHANGED <<routerVars, buildVars, intentVars, extraVars>>

NextPath == ValidateStep \/ AnalyzeStep \/ RejectStep \/ NoPathStep

SpecPath == InitPath /\ [][NextPath]_vars

----------------------------------------------------------------------------
(* Path confinement: C6, C7 *)

\* the paths the claim names: holding "..", absolute, or holding a blocked pattern
IsDangerousPath(path) ==
    \/ Contains(path, DotDot)
    \/ StartsWith(path, <<"/">>)
    \/ ContainsBlockedPattern(path)

\* p is root or lies below it (root does not end in "/")
IsUnder(p, root) == p = root \/ StartsWith(p, root \o <<"/">>)

\* C6: for every repository path that contains "..", is absolute or contains a
\* blocked-pattern substring, validate_repo_path returns no path, and
\* build_domain_context ends with the summary "Invalid repository path" and an
\* empty component map, whatever exists under the confinement root.
C6_DangerousPathIsInvalid ==
    IsDangerousPath(repo_path) =>
        /\ (dpc # "start" => validated_path = NoPath)
        /\ (dpc = "done" =>
                /\ domain_context.repo_summary = InvalidSummary
                /\ domain_context.key_components = {})

----------------------------------------------------------------------------
(* core/context_aware_model_router.py *)

NoChoice == [found |-> FALSE]

\* the models a ModelRegistry may hold: model_id and provider_name
ModelCatalogue == <<
    [model_id |-> "llama2",           provider_name |-> "ollama"],
    [model_id |-> "local/claude-2.1", provider_name |-> "anthropic"],
    [model_id |-> "gpt-4",            provider_name |-> "openai"],
    [model_id |-> "claude-3",         provider_name |-> "anthropic"] >>

\* a catalogue entry with its metadata flags
ModelVariants(i) ==
    {[model_id            |-> ModelCatalogue[i].model_id,
      provider_name       |-> ModelCatalogue[i].provider_name,
      compliance_approved |-> ca,
      production_ready    |-> pr] : ca \in BOOLEAN, pr \in BOOLEAN}

\* the registries of at most n models drawn, in catalogue order, from entry i on
RECURSIVE RegistriesFrom(_, _)
RegistriesFrom(i, n) ==
    IF i > Len(ModelCatalogue) \/ n = 0 THEN {<<>>}
    ELSE RegistriesFrom(i + 1, n)
         \cup {<<m>> \o r : m \in ModelVariants(i), r \in RegistriesFrom(i + 1, n - 1)}

\* ModelRegistry.get_model(model_id)
GetModel(reg, model_id) ==
    IF \E i \in 1..Len(reg) : reg[i].model_id = model_id
    THEN [found |-> TRUE,
          model |-> reg[CHOOSE i \in 1..Len(reg) : reg[i].model_id = model_id]]
    ELSE [found |-> FALSE]

IsProvider(m, provider) == m.provider_name = provider

\* ModelRegistry.get_models_by_provider(provider)
GetModelsByProvider(reg, provider) ==
    SelectSeq(reg, LAMBDA m : IsProvider(m, provider))

\* the score ModelPolicyEngine.choose_best attaches, in tenths
PolicyEngineScore == 5

\* self.clients
Clients == {"ollama", "openai", "anthropic", "generic_openai"}

OverrideScore == 10

LocalFallbackScore == 8

CloudFallbackScore == 7

SeqToSet(q) == {q[i] : i \in 1..Len(q)}

\* _apply_context_routing(task, context)
ApplyContextRouting(c) ==
    [reasons |->
        (IF c.environment = "production"
         THEN <<"Production environment - prefer proven models">> ELSE <<>>)
        \o (IF c.expertise_level = "expert"
            THEN <<"Expert user - can handle advanced models">>
            ELSE IF c.expertise_level = "beginner"
            THEN <<"Beginner user - prefer patient, explanatory models">>
            ELSE <<>>)
        \o (IF c.security_intent
            THEN <<"Security task - require compliance-approved models">> ELSE <<>>)
        \o (IF c.budget_conscious
            THEN <<"Budget conscious - prefer cost-effective models">> ELSE <<>>)
        \o (IF c.high_load
            THEN <<"High system load - prefer lightweight models">> ELSE <<>>),
     override_model |->
        IF c.environment = "production" /\ c.model_routing_mode = "local-preferred"
        THEN "local/claude-2.1" ELSE "None",
     compliance_required |-> c.security_intent,
     prefer_local        |-> c.budget_conscious,
     prefer_lightweight  |-> c.high_load]

\* an override lookup that disregards the routing mode
OverrideLookup_AnyMode(reg, c) ==
    IF c.environment = "production"
    THEN GetModel(reg, "local/claude-2.1")
    ELSE [found |-> FALSE]

\* lines 78-81: the override model, when the routing decision names one that is registered
OverrideLookup(reg, c) ==
    LET routing == ApplyContextRouting(c) IN
    IF routing.override_model # "None"
    THEN GetModel(reg, routing.override_model)
    ELSE [found |-> FALSE]

\* hard_walls.get("allowed_model_providers", default)
AllowedProviders(c, default) ==
    IF c.allowed.present THEN c.allowed.list ELSE default

\* _passes_context_filters(choice, context)
PassesContextFilters(m, c) ==
    LET allowed_providers == AllowedProviders(c, <<>>) IN
    IF allowed_providers # <<>> /\ m.provider_name \notin SeqToSet(allowed_providers)
    THEN FALSE
    ELSE IF c.require_compliance /\ ~m.compliance_approved THEN FALSE
    ELSE IF c.environment = "production" /\ m.production_ready = FALSE THEN FALSE
    ELSE TRUE

IsLocalFallback(m) == m.model_id = "llama2" \/ m.model_id = "codellama"

\* _get_compliant_fallback(context)
GetCompliantFallback(reg, c) ==
    LET local_models       == SelectSeq(GetModelsByProvider(reg, "ollama"), IsLocalFallback)
        approved_providers == AllowedProviders(c, <<"anthropic">>)
        stocked            == {i \in 1..Len(approved_providers) :
                                  GetModelsByProvider(reg, approved_providers[i]) # <<>>}
    IN  IF local_models # <<>>
        THEN [found |-> TRUE, model |-> local_models[1], score |-> LocalFallbackScore,
              reasons |-> <<"Fallback compliant model">>]
        ELSE IF stocked # {}
        THEN LET first == CHOOSE i \in stocked : \A j \in stocked : i <= j IN
             [found |-> TRUE,
              model |-> GetModelsByProvider(reg, approved_providers[first])[1],
              score |-> CloudFallbackScore,
              reasons |-> <<"Approved cloud fallback">>]
        ELSE NoChoice

\* select_and_invoke_with_context without the `choice is None` test of line 135
SelectAfterPlan_NoNoneCheck(ch, dry) ==
    IF dry THEN "dry_run"
    ELSE IF ch.found /\ ch.model.provider_name \notin Clients THEN "raise_no_client"
    ELSE "invoke"

\* lines 135-155 of select_and_invoke_with_context: what follows the plan
SelectAfterPlan(ch, dry) ==
    IF ~ch.found THEN "raise_no_model"
    ELSE IF dry THEN "dry_run"
    ELSE IF ch.model.provider_name \notin Clients THEN "raise_no_client"
    ELSE "invoke"

----------------------------------------------------------------------------
(* One request to the router, step by step *)

AllowedLists ==
    { [present |-> FALSE, list |-> <<>>],
      [present |-> TRUE,  list |-> <<>>],
      [present |-> TRUE,  list |-> <<"anthropic">>],
      [present |-> TRUE,  list |-> <<"anthropic", "openai", "ollama">>] }

RouterContexts ==
    [allowed            : AllowedLists,
     require_compliance : BOOLEAN,
     environment        : {"development", "production"},
     model_routing_mode : {"local-preferred", "cloud-preferred"},
     security_intent    : BOOLEAN,
     expertise_level    : {"intermediate"},
     budget_conscious   : {FALSE},
     high_load          : {FALSE}]

\* the envelopes in which the context routing rules vary
RationaleContexts ==
    [allowed            : {[present |-> TRUE, list |-> <<"anthropic">>]},
     require_compliance : {FALSE},
     environment        : {"development", "production"},
     model_routing_mode : {"local-preferred", "cloud-preferred"},
     security_intent    : BOOLEAN,
     expertise_level    : {"beginner", "intermediate", "expert"},
     budget_conscious   : BOOLEAN,
     high_load          : BOOLEAN]

DomainIdle ==
    /\ dpc = "idle"
    /\ repo_path = NoPath
    /\ fs = NoFiles
    /\ validated_path = NoPath
    /\ domain_context = InitialDomainContext(NoPath)
    /\ examined = {}

InitRouter ==
    /\ IntentIdle
    /\ ExtraIdle
    /\ DomainIdle
    /\ BuildIdle
    /\ rpc = "planning"
    /\ registry \in RegistriesFrom(1, MaxRegistry)
    /\ ctx \in RouterContexts \cup RationaleContexts
    /\ dry_run \in BOOLEAN
    /\ choice = NoChoice
    /\ stages = <<"PLANNING">>
    /\ telemetry = <<>>
    /\ invoked = {}

\* lines 78-88: the registered override model is returned with score 1.0
OverrideStep ==
    /\ rpc = "planning"
    /\ OverrideLookup(registry, ctx).found
    /\ choice' = [found   |-> TRUE,
                  model   |-> OverrideLookup(registry, ctx).model,
                  score   |-> OverrideScore,
                  reasons |-> ApplyContextRouting(ctx).reasons]
    /\ telemetry' = Append(telemetry, "record_plan")
    /\ stages' = stages \o <<"OVERRIDE_APPLIED", "RESOLVED">>
    /\ rpc' = "plan_returned"
    /\ UNCHANGED <<registry, ctx, dry_run, invoked>>
    /\ UNCHANGED <<domainVars, buildVars, intentVars, extraVars>>

\* line 91: the policy engine chooses among the registered models
PolicyStep ==
    /\ rpc = "planning"
    /\ ~OverrideLookup(registry, ctx).found
    /\ \E i \in 1..Len(registry) :
          choice' = [found   |-> TRUE,
                     model   |-> registry[i],
                     score   |-> PolicyEngineScore,
                     reasons |-> <<"policy engine">>]
    /\ stages' = Append(stages, "POLICY_SELECTED")
    /\ rpc' = "policy_selected"
    /\ UNCHANGED <<registry, ctx, dry_run, telemetry, invoked>>
    /\ UNCHANGED <<domainVars, buildVars, intentVars, extraVars>>

\* lines 91, 107-109: the policy engine has nothing to choose from; the error propagates
PolicyRaiseStep ==
    /\ rpc = "planning"
    /\ ~OverrideLookup(registry, ctx).found
    /\ registry = <<>>
    /\ rpc' = "plan_raised"
    /\ UNCHANGED <<registry, ctx, dry_run, choice, stages, telemetry, invoked>>
    /\ UNCHANGED <<domainVars, buildVars, intentVars, extraVars>>

\* lines 94-96: the policy engine's choice passes the context filters
FilterPassStep ==
    /\ rpc = "policy_selected"
    /\ PassesContextFilters(choice.model, ctx)
    /\ telemetry' = Append(telemetry, "record_plan")
    /\ stages' = stages \o <<"FILTER_PASSED", "RESOLVED">>
    /\ rpc' = "plan_returned"
    /\ UNCHANGED <<registry, ctx, dry_run, choice, invoked>>
    /\ UNCHANGED <<domainVars, buildVars, intentVars, extraVars>>

\* lines 94, 97: the policy engine's choice is rejected
FilterRejectStep ==
    /\ rpc = "policy_selected"
    /\ ~PassesContextFilters(choice.model, ctx)
    /\ stages' = Append(stages, "FILTER_REJECTED")
    /\ rpc' = "filter_rejected"
    /\ UNCHANGED <<registry, ctx, dry_run, choice, telemetry, invoked>>
    /\ UNCHANGED <<domainVars, buildVars, intentVars, extraVars>>

\* lines 99-105: the fallback search, and plan_with_context's return
FallbackStep ==
    /\ rpc = "filter_rejected"
    /\ choice' = GetCompliantFallback(registry, ctx)
    /\ telemetry' = IF choice'.found THEN Append(telemetry, "record_plan") ELSE telemetry
    /\ stages' = stages \o <<"FALLBACK_SEARCH",
                             IF choice'.found THEN "RESOLVED" ELSE "NO_CANDIDATE">>
    /\ rpc' = "plan_returned"
    /\ UNCHANGED <<registry, ctx, dry_run, invoked>>
    /\ UNCHANGED <<domainVars, buildVars, intentVars, extraVars>>

\* lines 134-155: select_and_invoke_with_context takes the plan's result
SelectStep ==
    /\ rpc = "plan_returned"
    /\ LET next == SelectAfterPlan(choice, dry_run) IN
       /\ rpc' = CASE next = "raise_no_model"  -> "raised"
                   [] next = "dry_run"         -> "returned"
                   [] next = "raise_no_client" -> "raised"
                   [] OTHER                    -> "invoking"
       /\ telemetry' = IF next = "invoke" THEN Append(telemetry, "before_invoke")
                       ELSE telemetry
    /\ UNCHANGED <<registry, ctx, dry_run, choice, stages, invoked>>
    /\ UNCHANGED <<domainVars, buildVars, intentVars, extraVars>>

\* lines 198-200: an error raised by plan_with_context reaches the caller
PlanRaisedStep ==
    /\ rpc = "plan_raised"
    /\ rpc' = "raised"
    /\ UNCHANGED <<registry, ctx, dry_run, choice, stages, telemetry, invoked>>
    /\ UNCHANGED <<domainVars, buildVars, intentVars, extraVars>>

\* lines 162-196: the provider client is invoked and answers or fails
InvokeStep ==
    /\ rpc = "invoking"
    /\ invoked' = invoked \cup {IF choice.found THEN choice.model.provider_name ELSE "None"}
    /\ \E success \in BOOLEAN :
          /\ telemetry' = Append(telemetry,
                                 IF success THEN "after_invoke_success"
                                 ELSE "after_invoke_failure")
          /\ rpc' = IF success THEN "returned" ELSE "raised"
    /\ UNCHANGED <<registry, ctx, dry_run, choice, stages>>
    /\ UNCHANGED <<domainVars, buildVars, intentVars, extraVars>>

NextRouter ==
    \/ OverrideStep
    \/ PolicyStep
    \/ PolicyRaiseStep
    \/ FilterPassStep
    \/ FilterRejectStep
    \/ FallbackStep
    \/ SelectStep
    \/ PlanRaisedStep
    \/ InvokeStep

SpecRouter == InitRouter /\ [][NextRouter]_vars

----------------------------------------------------------------------------
(* Selection, filtering and fallback: C1, C2, C4, C5 *)

\* plan_with_context has returned (a candidate or None)
PlanReturned == rpc \in {"plan_returned", "invoking", "returned", "raised"} /\ stages # <<"PLANNING">>

\* plan_with_context has returned a candidate
CandidateReturned == PlanReturned /\ choice.found

\* plan_with_context has returned None
NoCandidate == stages[Len(stages)] = "NO_CANDIDATE"

InvokeEvents == {"before_invoke", "after_invoke_success", "after_invoke_failure"}

\* C1: when the hard walls declare a non-empty allowed_model_providers list, a
\* candidate returned by plan_with_context (by the override, the policy engine or
\* the fallback search) has a provider in that list.
C1_ReturnedProviderAllowed ==
    (CandidateReturned /\ ctx.allowed.present /\ ctx.allowed.list # <<>>) =>
        choice.model.provider_name \in SeqToSet(ctx.allowed.list)

\* C2: a candidate returned by plan_with_context carries the compliance-approved
\* flag when the hard walls require compliance, and the production-ready flag
\* when the environment is production, also when the fallback search produced it.
C2_ReturnedCandidatePassesFlags ==
    CandidateReturned =>
        /\ (ctx.require_compliance => choice.model.compliance_approved)
        /\ (ctx.environment = "production" => choice.model.production_ready)

\* C4: after the filter rejected the policy engine's candidate, plan_with_context
\* returns a candidate of an allowed provider if the registry holds a model of an
\* allowed provider, and None otherwise.
C4_FallbackWithinAllowedSet ==
    (/\ PlanReturned
     /\ stages[2] = "POLICY_SELECTED" /\ stages[3] = "FILTER_REJECTED"
     /\ ctx.allowed.present /\ ctx.allowed.list # <<>>) =>
        LET allowed == SeqToSet(ctx.allowed.list) IN
        IF \E i \in 1..Len(registry) : registry[i].provider_name \in allowed
        THEN choice.found /\ choice.model.provider_name \in allowed
        ELSE ~choice.found

\* C5: when plan_with_context ends with no candidate, select_and_invoke_with_context
\* raises: it neither returns nor goes on to invoke, no provider client is invoked
\* and no before_invoke or after_invoke telemetry event is recorded.
C5_NoCandidateIsSurfaced ==
    NoCandidate =>
        /\ rpc \in {"plan_returned", "raised"}
        /\ invoked = {}
        /\ \A i \in 1..Len(telemetry) : telemetry[i] \notin InvokeEvents

\* C5's case: the fallback search found nothing and the live router raised
C5_Witness ==
    /\ NoCandidate
    /\ ~dry_run
    /\ registry # <<>>
    /\ rpc = "raised"

----------------------------------------------------------------------------
(* context_engineering/sources/intent_detection.py.  Messages, hints and     *)
(* intent names are character sequences; a score is a fraction num/den.      *)

\* INTENT_PATTERNS, in dictionary order; each pattern is one literal or two
\* literals joined by ".*", with the number of whitespace-separated parts of
\* its text
IntentPatterns ==
    << [intent |-> <<"a", "r", "c", "h", "i", "t", "e", "c", "t", "u", "r", "e", "_", "d", "e", "s", "i", "g", "n">>,
       patterns |-> <<
         [frags |-> <<<<"a", "r", "c", "h", "i", "t", "e", "c", "t", "u", "r", "e">>>>, parts |-> 1],
         [frags |-> <<<<"d", "e", "s", "i", "g", "n">>, <<"s", "y", "s", "t", "e", "m">>>>, parts |-> 1],
         [frags |-> <<<<"s", "y", "s", "t", "e", "m">>, <<"d", "e", "s", "i", "g", "n">>>>, parts |-> 1],
         [frags |-> <<<<"t", "e", "c", "h", "n", "i", "c", "a", "l">>, <<"d", "e", "s", "i", "g", "n">>>>, parts |-> 1],
         [frags |-> <<<<"s", "c", "a", "l", "a", "b", "i", "l", "i", "t", "y">>>>, parts |-> 1],
         [frags |-> <<<<"m", "i", "c", "r", "o", "s", "e", "r", "v", "i", "c", "e", "s">>>>, parts |-> 1],
         [frags |-> <<<<"m", "o", "n", "o", "l", "i", "t", "h">>>>, parts |-> 1],
         [frags |-> <<<<"c", "o", "m", "p", "o", "n", "e", "n", "t">>, <<"d", "e", "s", "i", "g", "n">>>>, parts |-> 1] >>],
       [intent |-> <<"r", "e", "p", "o", "_", "a", "n", "a", "l", "y", "s", "i", "s">>,
       patterns |-> <<
         [frags |-> <<<<"a", "n", "a", "l", "y", "z", "e">>, <<"r", "e", "p", "o">>>>, parts |-> 1],
         [frags |-> <<<<"c", "o", "d", "e", "b", "a", "s", "e">>, <<"a", "n", "a", "l", "y", "s", "i", "s">>>>, parts |-> 1],
         [frags |-> <<<<"u", "n", "d", "e", "r", "s", "t", "a", "n", "d">>, <<"c", "o", "d", "e">>>>, parts |-> 1],
         [frags |-> <<<<"c", "o", "d", "e">>, <<"r", "e", "v", "i", "e", "w">>>>, parts |-> 1],
         [frags |-> <<<<"t", "e", "c", "h", "n", "i", "c", "a", "l">>, <<"d", "e", "b", "t">>>>, parts |-> 1],
         [frags |-> <<<<"r", "e", "p", "o", "s", "i", "t", "o", "r", "y">>, <<"a", "n", "a", "l", "y", "s", "i", "s">>>>, parts |-> 1] >>],
       [intent |-> <<"i", "m", "p", "l", "e", "m", "e", "n", "t", "a", "t", "i", "o", "n">>,
       patterns |-> <<
         [frags |-> <<<<"i", "m", "p", "l", "e", "m", "e", "n", "t">>>>, parts |-> 1],
         [frags |-> <<<<"b", "u", "i", "l", "d">>, <<"f", "e", "a", "t", "u", "r", "e">>>>, parts |-> 1],
         [frags |-> <<<<"c", "o", "d", "e">>, <<"i", "m", "p", "l", "e", "m", "e", "n", "t", "a", "t", "i", "o", "n">>>>, parts |-> 1],
         [frags |-> <<<<"d", "e", "v", "e", "l", "o", "p">>, <<"s", "o", "l", "u", "t", "i", "o", "n">>>>, parts |-> 1],
         [frags |-> <<<<"w", "r", "i", "t", "e">>, <<"c", "o", "d", "e">>>>, parts |-> 1],
         [frags |-> <<<<"c", "r", "e", "a", "t", "e">>, <<"c", "o", "m", "p", "o", "n", "e", "n", "t">>>>, parts |-> 1] >>],
       [intent |-> <<"t", "r", "o", "u", "b", "l", "e", "s", "h", "o", "o", "t", "i", "n", "g">>,
       patterns |-> <<
         [frags |-> <<<<"b", "u", "g">>>>, parts |-> 1],
         [frags |-> <<<<"e", "r", "r", "o", "r">>>>, parts |-> 1],
         [frags |-> <<<<"i", "s", "s", "u", "e">>>>, parts |-> 1],
         [frags |-> <<<<"p", "r", "o", "b", "l", "e", "m">>>>, parts |-> 1],
         [frags |-> <<<<"n", "o", "t">>, <<"w", "o", "r", "k", "i", "n", "g">>>>, parts |-> 1],
         [frags |-> <<<<"f", "i", "x">>, <<"i", "s", "s", "u", "e">>>>, parts |-> 1],
         [frags |-> <<<<"d", "e", "b", "u", "g">>>>, parts |-> 1],
         [frags |-> <<<<"t", "r", "o", "u", "b", "l", "e", "s", "h", "o", "o", "t">>>>, parts |-> 1] >>],
       [intent |-> <<"s", "e", "c", "u", "r", "i", "t", "y", "_", "a", "n", "a", "l", "y", "s", "i", "s">>,
       patterns |-> <<
         [frags |-> <<<<"s", "e", "c", "u", "r", "i", "t", "y">>>>, parts |-> 1],
         [frags |-> <<<<"v", "u", "l", "n", "e", "r", "a", "b", "i", "l", "i", "t", "y">>>>, parts |-> 1],
         [frags |-> <<<<"t", "h", "r", "e", "a", "t">>, <<"m", "o", "d", "e", "l">>>>, parts |-> 1],
         [frags |-> <<<<"s", "e", "c", "u", "r", "i", "t", "y">>, <<"r", "e", "v", "i", "e", "w">>>>, parts |-> 1],
         [frags |-> <<<<"p", "e", "n", "e", "t", "r", "a", "t", "i", "o", "n">>, <<"t", "e", "s", "t">>>>, parts |-> 1],
         [frags |-> <<<<"s", "e", "c", "u", "r", "i", "t", "y">>, <<"a", "u", "d", "i", "t">>>>, parts |-> 1] >>],
       [intent |-> <<"p", "e", "r", "f", "o", "r", "m", "a", "n", "c", "e", "_", "o", "p", "t", "i", "m", "i", "z", "a", "t", "i", "o", "n">>,
       patterns |-> <<
         [frags |-> <<<<"p", "e", "r", "f", "o", "r", "m", "a", "n", "c", "e">>>>, parts |-> 1],
         [frags |-> <<<<"o", "p", "t", "i", "m", "i", "z", "e">>>>, parts |-> 1],
         [frags |-> <<<<"s", "l", "o", "w">>>>, parts |-> 1],
         [frags |-> <<<<"b", "o", "t", "t", "l", "e", "n", "e", "c", "k">>>>, parts |-> 1],
         [frags |-> <<<<"l", "a", "t", "e", "n", "c", "y">>>>, parts |-> 1],
         [frags |-> <<<<"t", "h", "r", "o", "u", "g", "h", "p", "u", "t">>>>, parts |-> 1],
         [frags |-> <<<<"s", "c", "a", "l", "i", "n", "g">>>>, parts |-> 1] >>],
       [intent |-> <<"d", "o", "c", "u", "m", "e", "n", "t", "a", "t", "i", "o", "n">>,
       patterns |-> <<
         [frags |-> <<<<"d", "o", "c", "u", "m", "e", "n", "t">>>>, parts |-> 1],
         [frags |-> <<<<"r", "e", "a", "d", "m", "e">>>>, parts |-> 1],
         [frags |-> <<<<"a", "p", "i">>, <<"d", "o", "c">>>>, parts |-> 1],
         [frags |-> <<<<"t", "e", "c", "h", "n", "i", "c", "a", "l">>, <<"w", "r", "i", "t", "i", "n", "g">>>>, parts |-> 1],
         [frags |-> <<<<"k", "n", "o", "w", "l", "e", "d", "g", "e">>, <<"b", "a", "s", "e">>>>, parts |-> 1] >>],
       [intent |-> <<"p", "l", "a", "n", "n", "i", "n", "g">>,
       patterns |-> <<
         [frags |-> <<<<"p", "l", "a", "n">>>>, parts |-> 1],
         [frags |-> <<<<"r", "o", "a", "d", "m", "a", "p">>>>, parts |-> 1],
         [frags |-> <<<<"s", "t", "r", "a", "t", "e", "g", "y">>>>, parts |-> 1],
         [frags |-> <<<<"m", "i", "g", "r", "a", "t", "e">>>>, parts |-> 1],
         [frags |-> <<<<"r", "e", "f", "a", "c", "t", "o", "r">>, <<"p", "l", "a", "n">>>>, parts |-> 1],
         [frags |-> <<<<"p", "r", "o", "j", "e", "c", "t">>, <<"p", "l", "a", "n">>>>, parts |-> 1] >>] >>

GeneralAssistance == <<"g", "e", "n", "e", "r", "a", "l", "_", "a", "s", "s", "i", "s", "t", "a", "n", "c", "e">>

\* re.search of a literal at position i of s
MatchesAt(s, frag, i) ==
    /\ i >= 1
    /\ i + Len(frag) - 1 <= Len(s)
    /\ \A k \in 1..Len(frag) : s[i + k - 1] = frag[k]

\* re.search(pattern, s): "." does not match a newline
Search(pattern, s) ==
    IF Len(pattern.frags) = 1
    THEN \E i \in 1..Len(s) : MatchesAt(s, pattern.frags[1], i)
    ELSE \E i \in 1..Len(s) : \E j \in 1..Len(s) :
            /\ MatchesAt(s, pattern.frags[1], i)
            /\ j >= i + Len(pattern.frags[1])
            /\ MatchesAt(s, pattern.frags[2], j)
            /\ \A k \in (i + Len(pattern.frags[1]))..(j - 1) : s[k] # "\n"

\* lines 160-163, doubled: 1.5 for a pattern of more than two parts, else 1
Weight2(pattern) == IF pattern.parts > 2 THEN 3 ELSE 2

RECURSIVE ScoreFrom(_, _, _)
\* lines 154-163: the doubled sum of the weights of the patterns from index i on
\* that match
ScoreFrom(patterns, s, i) ==
    IF i > Len(patterns) THEN 0
    ELSE (IF Search(patterns[i], s) THEN Weight2(patterns[i]) ELSE 0)
         + ScoreFrom(patterns, s, i + 1)

\* lines 165-167: score / len(patterns), for the category at index c
NormalizedScore(c, s) ==
    [num |-> ScoreFrom(IntentPatterns[c].patterns, s, 1),
     den |-> 2 * Len(IntentPatterns[c].patterns)]

\* a/b > c/d for positive denominators
FracGreater(x, y) == x.num * y.den > y.num * x.den

\* min(score, 1.0)
CapAtOne(x) == IF x.num > x.den THEN [num |-> x.den, den |-> x.den] ELSE x

RECURSIVE BestFrom_LastWins(_, _, _)
\* a maximum that keeps the last of the equal best scores
BestFrom_LastWins(s, c, best) ==
    IF c > Len(IntentPatterns) THEN best
    ELSE LET score == NormalizedScore(c, s) IN
         IF score.num > 0 /\ (best = 0 \/ ~FracGreater(NormalizedScore(best, s), score))
         THEN BestFrom_LastWins(s, c + 1, c)
         ELSE BestFrom_LastWins(s, c + 1, best)

RECURSIVE BestFrom(_, _, _)
\* line 174: max over the matched categories in dictionary order, which keeps
\* the first of the equal best scores (0: no category matched yet)
BestFrom(s, c, best) ==
    IF c > Len(IntentPatterns) THEN best
    ELSE LET score == NormalizedScore(c, s) IN
         IF score.num > 0 /\ (best = 0 \/ FracGreater(score, NormalizedScore(best, s)))
         THEN BestFrom(s, c + 1, c)
         ELSE BestFrom(s, c + 1, best)

\* _classify_intent_from_message(message)
ClassifyIntentFromMessage(s) ==
    LET best == BestFrom(s, 1, 0) IN
    IF best = 0
    THEN [primary_intent |-> GeneralAssistance, confidence_score |-> [num |-> 1, den |-> 2]]
    ELSE [primary_intent |-> IntentPatterns[best].intent,
          confidence_score |-> CapAtOne(NormalizedScore(best, s))]

\* a normalisation that lower-cases and keeps the spaces
NormalizeHint_LowerOnly(hint) == [i \in 1..Len(hint) |-> LowerChar(hint[i])]

\* line 117: task_type.lower().replace(" ", "_")
NormalizeHint(hint) ==
    [i \in 1..Len(hint) |-> IF hint[i] = " " THEN "_" ELSE LowerChar(hint[i])]

\* detect_intent(message, task_type); the fields the model follows
DetectIntentOf(msg, hint) ==
    IF hint # NoHint
    THEN [primary_intent |-> NormalizeHint(hint), task_type |-> hint,
          confidence_score |-> [num |-> 9, den |-> 10]]
    ELSE LET classified == ClassifyIntentFromMessage(Lower(msg)) IN
         [primary_intent |-> classified.primary_intent, task_type |-> hint,
          confidence_score |-> classified.confidence_score]

\* the texts that occur as intent names and hints, with the strings the
\* envelope's layers hold for them
IntentTexts ==
    << [chars |-> <<"a", "r", "c", "h", "i", "t", "e", "c", "t", "u", "r", "e", "_", "d", "e", "s", "i", "g", "n">>, text |-> "architecture_design"],
       [chars |-> <<"r", "e", "p", "o", "_", "a", "n", "a", "l", "y", "s", "i", "s">>, text |-> "repo_analysis"],
       [chars |-> <<"i", "m", "p", "l", "e", "m", "e", "n", "t", "a", "t", "i", "o", "n">>, text |-> "implementation"],
       [chars |-> <<"t", "r", "o", "u", "b", "l", "e", "s", "h", "o", "o", "t", "i", "n", "g">>, text |-> "troubleshooting"],
       [chars |-> <<"s", "e", "c", "u", "r", "i", "t", "y", "_", "a", "n", "a", "l", "y", "s", "i", "s">>, text |-> "security_analysis"],
       [chars |-> <<"p", "e", "r", "f", "o", "r", "m", "a", "n", "c", "e", "_", "o", "p", "t", "i", "m", "i", "z", "a", "t", "i", "o", "n">>, text |-> "performance_optimization"],
       [chars |-> <<"d", "o", "c", "u", "m", "e", "n", "t", "a", "t", "i", "o", "n">>, text |-> "documentation"],
       [chars |-> <<"p", "l", "a", "n", "n", "i", "n", "g">>, text |-> "planning"],
       [chars |-> <<"g", "e", "n", "e", "r", "a", "l", "_", "a", "s", "s", "i", "s", "t", "a", "n", "c", "e">>, text |-> "general_assistance"],
       [chars |-> <<"R", "e", "p", "o", " ", "A", "n", "a", "l", "y", "s", "i", "s">>, text |-> "Repo Analysis"],
       [chars |-> <<"c", "o", "d", "e", "_", "r", "e", "v", "i", "e", "w">>, text |-> "code_review"],
       [chars |-> <<"Q", "A">>, text |-> "QA"],
       [chars |-> <<"q", "a">>, text |-> "qa"] >>

\* the string for a text (None for NoHint)
TextOf(chars) ==
    IF chars = <<>> THEN "None"
    ELSE IF \E i \in 1..Len(IntentTexts) : IntentTexts[i].chars = chars
    THEN IntentTexts[CHOOSE i \in 1..Len(IntentTexts) : IntentTexts[i].chars = chars].text
    ELSE "unlisted"

\* the text for a string
CharsOf(text) ==
    IntentTexts[CHOOSE i \in 1..Len(IntentTexts) : IntentTexts[i].text = text].chars

\* the IntentContext of detect_intent as the envelope holds it
IntentContextOf(msg, hint) ==
    LET d == DetectIntentOf(msg, hint) IN
    [primary_intent |-> TextOf(d.primary_intent), task_type |-> TextOf(d.task_type),
     confidence_score |-> d.confidence_score]

NoConfidence == [num |-> 0, den |-> 0]

\* the task-type hints of the model: none, one with capitals and a space, one
\* already normalized, one of capitals only
Hints == { NoHint, <<"R", "e", "p", "o", " ", "A", "n", "a", "l", "y", "s", "i", "s">>, <<"c", "o", "d", "e", "_", "r", "e", "v", "i", "e", "w">>, <<"Q", "A">> }

\* the words messages are made of
Vocabulary ==
    { <<"d", "e", "s", "i", "g", "n">>,
      <<"s", "y", "s", "t", "e", "m">>,
      <<"D", "e", "b", "u", "g">>,
      <<"p", "l", "a", "n">>,
      <<"i", "m", "p", "l", "e", "m", "e", "n", "t">>,
      <<"H", "e", "l", "l", "o">> }

\* what stands between two words of a message
Separators == { <<" ">>, <<"\n">> }

RECURSIVE MessagesOf(_)
\* the messages of exactly n words
MessagesOf(n) ==
    IF n = 0 THEN { <<>> }
    ELSE IF n = 1 THEN Vocabulary
    ELSE { m \o sep \o w : m \in MessagesOf(n - 1), sep \in Separators, w \in Vocabulary }

Messages == UNION { MessagesOf(n) : n \in 0..MaxWords }

----------------------------------------------------------------------------
(* One call of detect_intent *)

InitIntent ==
    /\ DomainIdle
    /\ RouterIdle
    /\ BuildIdle
    /\ ExtraIdle
    /\ ipc = "start"
    /\ message \in Messages
    /\ task_type \in Hints
    /\ detected = [set |-> FALSE]

DetectStep ==
    /\ ipc = "start"
    /\ ipc' = "done"
    /\ detected' = [set |-> TRUE, intent |-> DetectIntentOf(message, task_type)]
    /\ UNCHANGED <<message, task_type>>
    /\ UNCHANGED <<domainVars, routerVars, buildVars, extraVars>>

NextIntent == DetectStep

SpecIntent == InitIntent /\ [][NextIntent]_vars

\* the patterns of category c that match s
MatchingPatterns(c, s) ==
    { i \in 1..Len(IntentPatterns[c].patterns) : Search(IntentPatterns[c].patterns[i], s) }

\* the normalized score of category c, from the matching patterns' weights
DeclaredScore(c, s) ==
    LET matching == MatchingPatterns(c, s)
        heavy    == { i \in matching : IntentPatterns[c].patterns[i].parts > 2 }
    IN  [num |-> 2 * Cardinality(matching \ heavy) + 3 * Cardinality(heavy),
         den |-> 2 * Len(IntentPatterns[c].patterns)]

MatchedCategories(s) ==
    { c \in 1..Len(IntentPatterns) : MatchingPatterns(c, s) # {} }

\* C19: without a hint the category is the one with the highest normalized
\* score, the first in taxonomy order on ties; the confidence is that score
\* capped at 1.0 and lies in [0,1]; when no pattern matches the result is
\* general_assistance with confidence 0.5.
C19_ClassificationByHighestScore ==
    (ipc = "done" /\ task_type = NoHint) =>
        LET s == Lower(message)
            r == detected.intent
        IN  /\ 0 <= r.confidence_score.num
            /\ r.confidence_score.num <= r.confidence_score.den
            /\ IF MatchedCategories(s) = {}
               THEN /\ r.primary_intent = GeneralAssistance
                    /\ r.confidence_score = [num |-> 1, den |-> 2]
               ELSE \E c \in MatchedCategories(s) :
                      /\ r.primary_intent = IntentPatterns[c].intent
                      /\ \A d \in MatchedCategories(s) :
                            /\ ~FracGreater(DeclaredScore(d, s), DeclaredScore(c, s))
                            /\ d < c => FracGreater(DeclaredScore(c, s), DeclaredScore(d, s))
                      /\ r.confidence_score = CapAtOne(DeclaredScore(c, s))

\* C19's case: two categories share the highest score and the earlier one won
C19_Witness ==
    /\ ipc = "done"
    /\ task_type = NoHint
    /\ \E c \in MatchedCategories(Lower(message)) : \E d \in MatchedCategories(Lower(message)) :
          /\ c < d
          /\ DeclaredScore(c, Lower(message)).num * DeclaredScore(d, Lower(message)).den
                = DeclaredScore(d, Lower(message)).num * DeclaredScore(c, Lower(message)).den
          /\ detected.intent.primary_intent = IntentPatterns[c].intent


----------------------------------------------------------------------------
(* context_engineering/sources/user_profile.py, rules.py, environment.py,      *)
(* intent_detection.py: the other source adapters.  Maps are functions from     *)
(* key names; Python's None is the string "None".                              *)

EmptyMap == [k \in {} |-> "None"]

\* an update that adds the new keys of over and keeps the values base has
MapUpdate_BaseKept(base, over) ==
    [k \in (DOMAIN base) \cup (DOMAIN over) |-> IF k \in DOMAIN base THEN base[k] ELSE over[k]]

\* dict.update: base with every key of over replaced or added
MapUpdate(base, over) ==
    [k \in (DOMAIN base) \cup (DOMAIN over) |-> IF k \in DOMAIN over THEN over[k] ELSE base[k]]

\* the default preferences of build_user_context
DefaultPreferences ==
    [tone |-> "professional", detail_level |-> "medium", format |-> "markdown",
     include_examples |-> "True", language |-> "english"]

\* lines 33-53: the defaults with the role-based adjustments
RolePreferences(roles) ==
    IF "admin" \in roles \/ "developer" \in roles
    THEN MapUpdate(DefaultPreferences,
                   [tone |-> "technical", detail_level |-> "high", include_code |-> "True"])
    ELSE IF "executive" \in roles \/ "manager" \in roles
    THEN MapUpdate(DefaultPreferences,
                   [tone |-> "executive", detail_level |-> "summary",
                    include_metrics |-> "True"])
    ELSE DefaultPreferences

\* lines 56-60
ExpertiseLevel(roles) ==
    IF "senior" \in roles \/ "lead" \in roles THEN "expert"
    ELSE IF "junior" \in roles \/ "intern" \in roles THEN "beginner"
    ELSE "intermediate"

\* a build_user_context in which claim-supplied preferences replace the map
BuildUserContext_ClaimPreferencesReplace(claims, history_fails) ==
    [user_id         |-> claims.sub,
     roles           |-> claims.roles,
     expertise_level |-> ExpertiseLevel(claims.roles),
     preferences     |-> IF DOMAIN claims.preferences # {}
                         THEN claims.preferences
                         ELSE RolePreferences(claims.roles),
     history_summary |-> IF claims.sub # "None" /\ ~history_fails
                         THEN "history summary" ELSE "None"]

\* build_user_context(auth_claims, mem0_client) with a mem0 client injected;
\* history_fails: the client's get_user_summary raises
BuildUserContext(claims, history_fails) ==
    [user_id         |-> claims.sub,
     roles           |-> claims.roles,
     expertise_level |-> ExpertiseLevel(claims.roles),
     preferences     |-> MapUpdate(RolePreferences(claims.roles), claims.preferences),
     history_summary |-> IF claims.sub # "None" /\ ~history_fails
                         THEN "history summary" ELSE "None"]

\* UserContext()
DefaultUser ==
    [user_id |-> "None", roles |-> {}, expertise_level |-> "None",
     preferences |-> EmptyMap, history_summary |-> "None"]

\* detect_intent for an empty message and no task-type hint: no pattern matches
DetectIntent == IntentContextOf(<<>>, NoHint)

\* IntentContext(primary_intent="error_recovery")
ErrorRecoveryIntent ==
    [primary_intent |-> "error_recovery", task_type |-> "None",
     confidence_score |-> NoConfidence]

\* DomainContext()
DefaultDomain == InitialDomainContext(NoPath)

\* the baseline soft walls of build_rules_context that the model follows
BaselineSoftWalls ==
    [tone |-> "professional but approachable", default_format |-> "markdown"]

\* the baseline hard walls of build_rules_context that the model follows
BaselineHardWalls ==
    [allowed_model_providers |-> <<"anthropic", "openai", "ollama">>,
     forbidden_model_types   |-> <<"unvalidated_models">>]

\* build_rules_context(tenant_policies)
BuildRulesContext(tenant_policies) ==
    IF tenant_policies.present
    THEN [soft_walls |-> MapUpdate(BaselineSoftWalls, tenant_policies.soft_walls),
          hard_walls |-> MapUpdate(BaselineHardWalls, tenant_policies.hard_walls)]
    ELSE [soft_walls |-> BaselineSoftWalls, hard_walls |-> BaselineHardWalls]

\* RulesContext()
DefaultRules == [soft_walls |-> EmptyMap, hard_walls |-> EmptyMap]

\* build_environment_context(); load_fails: psutil raises inside _get_system_load
BuildEnvironmentContext(env_tier, load_fails) ==
    [environment        |-> env_tier,
     model_routing_mode |-> "local-preferred",
     active_sessions    |-> "42",
     system_load        |-> IF load_fails THEN "None" ELSE "measured",
     deployment_version |-> "unknown"]

\* EnvironmentContext()
DefaultEnvironment ==
    [environment        |-> "development",
     model_routing_mode |-> "local-preferred",
     active_sessions    |-> "0",
     system_load        |-> "None",
     deployment_version |-> "None"]

----------------------------------------------------------------------------
(* context_engineering/builder.py *)

FallbackNarrative == "Context building failed, using minimal context"

FallbackTokenUsage == 100

\* len(FallbackNarrative)
FallbackNarrativeLen == 46

NoMessage == <<>>

\* len(str({"error": msg})) for a message without quotes or escapes
ErrorPayloadLen(msg) == 13 + Len(msg)

\* the envelope of the except branch of build_context_envelope, for the
\* exception message msg
FallbackEnvelope(msg) ==
    [built             |-> TRUE,
     user              |-> DefaultUser,
     intent            |-> ErrorRecoveryIntent,
     domain            |-> DefaultDomain,
     rules             |-> DefaultRules,
     environment       |-> DefaultEnvironment,
     narrative         |-> FallbackNarrative,
     narrative_len     |-> FallbackNarrativeLen,
     truncated         |-> FALSE,
     structured_error  |-> msg,
     structured_len    |-> ErrorPayloadLen(msg),
     token_budget_used |-> FallbackTokenUsage]

\* lines 110-111: the token estimate of build_exposition
TokenCount(narrative_len, structured_len) == (narrative_len \div 4) + (structured_len \div 4)

\* a builder whose try block starts after the user layer
OnStageFailure_UserOutsideTry(stage) == IF stage = "user" THEN "raise" ELSE "fallback"

\* len("...[truncated]")
TruncationMarkerLen == 14

\* line 255: int(len(narrative) * reduction_factor * 0.9)
TargetLength(narrative_len, used, max_tokens) ==
    (narrative_len * max_tokens * 9) \div (used * 10)

\* an apply_token_budget that prunes the narrative and leaves the usage as it was
ApplyTokenBudget_UsageKept(env, max_tokens) ==
    IF env.token_budget_used <= max_tokens
    THEN env
    ELSE LET target == TargetLength(env.narrative_len, env.token_budget_used, max_tokens)
         IN  IF env.narrative_len > target
             THEN [env EXCEPT !.narrative_len = target + TruncationMarkerLen,
                              !.truncated = TRUE]
             ELSE env

\* apply_token_budget(envelope, max_tokens)
ApplyTokenBudget(env, max_tokens) ==
    IF env.token_budget_used <= max_tokens
    THEN env
    ELSE LET target == TargetLength(env.narrative_len, env.token_budget_used, max_tokens)
         IN  IF env.narrative_len > target
             THEN [env EXCEPT !.narrative_len = target + TruncationMarkerLen,
                              !.truncated = TRUE,
                              !.token_budget_used = max_tokens]
             ELSE [env EXCEPT !.token_budget_used = max_tokens]

\* what happens to an exception raised by a stage: every stage runs inside the
\* try block of lines 153-221, whose handler returns the fallback envelope
OnStageFailure(stage) == "fallback"

\* the stages in the order build_context_envelope runs them
StageAfter(stage) ==
    CASE stage = "user"        -> "intent"
      [] stage = "intent"      -> "domain"
      [] stage = "domain"      -> "rules"
      [] stage = "rules"       -> "environment"
      [] stage = "environment" -> "exposition"
      [] OTHER                 -> "done"

\* whether the stage raises past its adapter or its override application
StageRaises(stage, in) ==
    CASE stage = "user"        -> "claims_malformed" \in in.faults
      [] stage = "intent"      -> in.override_intent = "unknown_key"
      [] stage = "domain"      -> in.override_domain = "malformed_components"
      [] stage = "rules"       -> "tenant_policies_malformed" \in in.faults
      [] stage = "environment" -> "rate_limit_env_malformed" \in in.faults
      [] OTHER                 -> "config_malformed" \in in.faults

\* the collaborators that may never answer: mem0_client.get_user_summary and
\* repo_analyzer_client.get_repo_summary
HangKinds == {"history_lookup_never_answers", "analysis_never_answers"}

\* whether the stage makes a collaborator call that does not return: the history
\* lookup is made for a user id (user_profile.py line 67), the analysis for a
\* validated path that exists (domain_graph.py lines 70-73, 98-100)
AwaitsCollaborator(stage, in) ==
    CASE stage = "user" ->
            /\ "history_lookup_never_answers" \in in.faults
            /\ in.claims.sub # "None"
      [] stage = "domain" ->
            /\ "analysis_never_answers" \in in.faults
            /\ in.analyzer # "none"
            /\ in.request_body.context.repository_path # <<>>
            /\ ValidateRepoPath(in.request_body.context.repository_path) # NoPath
            /\ in.fs.exists
      [] OTHER -> FALSE

\* lines 157-160: the user layer
UserLayer(in) ==
    LET user == BuildUserContext(in.claims, "history_lookup_fails" \in in.faults) IN
    IF DOMAIN in.override_user_preferences # {}
    THEN [user EXCEPT !.preferences = MapUpdate(@, in.override_user_preferences)]
    ELSE user

\* lines 162-170: the intent layer
IntentLayer(in) ==
    LET intent == IntentContextOf(in.request_body.message, in.request_body.task_type) IN
    IF in.override_intent = "primary_intent"
    THEN [intent EXCEPT !.primary_intent = "architecture_design"]
    ELSE intent

\* the path a domain override carries
OverrideRepoPath == <<".", ".", "/", ".", ".", "/", "e", "t", "c">>

\* lines 172-181: the domain layer
DomainLayer(in) ==
    LET analyzer == IF in.analyzer # "none" /\ "analyzer_fails" \in in.faults
                    THEN "fails" ELSE in.analyzer
        domain   == BuildDomainContext(in.request_body.context.repository_path,
                                       in.fs, analyzer)
    IN  CASE in.override_domain = "repo_path" ->
                [domain EXCEPT !.repo_path = OverrideRepoPath]
          [] in.override_domain = "key_components" ->
                [domain EXCEPT !.key_components = @ \cup {"extra"}]
          [] in.override_domain = "frontend_component" ->
                [domain EXCEPT !.key_components = @ \cup {"frontend"}]
          [] OTHER -> domain

\* lines 183-189: the rules layer
RulesLayer(in) ==
    LET rules == BuildRulesContext(in.tenant_policies) IN
    IF in.override_rules.present
    THEN [soft_walls |-> MapUpdate(rules.soft_walls, in.override_rules.soft_walls),
          hard_walls |-> MapUpdate(rules.hard_walls, in.override_rules.hard_walls)]
    ELSE rules

\* lines 191-196: the environment layer; a key the layer does not have is
\* skipped by the hasattr test
EnvironmentLayer(in) ==
    LET environment == BuildEnvironmentContext(in.env_tier,
                                               "load_probe_fails" \in in.faults)
    IN  IF in.override_environment = "environment"
        THEN [environment EXCEPT !.environment = "production"]
        ELSE environment

LayerOf(stage, in) ==
    CASE stage = "user"        -> UserLayer(in)
      [] stage = "intent"      -> IntentLayer(in)
      [] stage = "domain"      -> DomainLayer(in)
      [] stage = "rules"       -> RulesLayer(in)
      [] OTHER                 -> EnvironmentLayer(in)

----------------------------------------------------------------------------
(* One call of build_context_envelope, stage by stage *)

FaultKinds ==
    {"claims_malformed", "history_lookup_fails", "analyzer_fails",
     "tenant_policies_malformed", "rate_limit_env_malformed", "load_probe_fails",
     "config_malformed"}

EtcPath == <<".", ".", "/", ".", ".", "/", "e", "t", "c">>

SafePath == <<"h">>

TenantPolicies ==
    { [present |-> FALSE, soft_walls |-> EmptyMap, hard_walls |-> EmptyMap],
      [present |-> TRUE,  soft_walls |-> EmptyMap,
       hard_walls |-> [allowed_model_providers |-> <<"anthropic">>]] }

\* ContextOverride.override_rules: absent, or maps for the two wall kinds
NoRulesOverride == [present |-> FALSE, soft_walls |-> EmptyMap, hard_walls |-> EmptyMap]

\* the calls in which the layers' inputs and the faults vary together
CoreInputs ==
    [claims : [sub : {"None", "u1"}, roles : {{"admin", "senior"}}, preferences : {EmptyMap}],
     request_body : [repository_path : {NoPath, EtcPath, SafePath},
                     context : [repository_path : {NoPath, EtcPath, SafePath}],
                     task_type : {NoHint},
                     message : {<<>>}],
     fs : {NoFiles, [exists |-> TRUE, files |-> {"package.json", "requirements.txt"},
                     dirs |-> {"tests"}]},
     analyzer : {"none", "ok"},
     tenant_policies : TenantPolicies,
     override_user_preferences : {EmptyMap},
     override_intent : {"none", "primary_intent", "unknown_key"},
     override_domain : {"none", "repo_path", "key_components", "malformed_components"},
     override_rules : {NoRulesOverride},
     override_environment : {"none"},
     env_tier : {"development"},
     faults : {f \in SUBSET FaultKinds : Cardinality(f) <= MaxFaults}]

\* an anonymous call with nothing supplied and nothing failing
PlainInput ==
    [claims |-> [sub |-> "None", roles |-> {}, preferences |-> EmptyMap],
     request_body |-> [repository_path |-> NoPath,
                       context |-> [repository_path |-> NoPath],
                       task_type |-> NoHint,
                       message |-> <<>>],
     fs |-> NoFiles,
     analyzer |-> "none",
     tenant_policies |-> [present |-> FALSE, soft_walls |-> EmptyMap, hard_walls |-> EmptyMap],
     override_user_preferences |-> EmptyMap,
     override_intent |-> "none",
     override_domain |-> "none",
     override_rules |-> NoRulesOverride,
     override_environment |-> "none",
     env_tier |-> "development",
     faults |-> {}]

\* the calls in which the overrides of the two typed layers vary
TypedOverrideInputs ==
    { [PlainInput EXCEPT !.override_intent = i, !.override_environment = e, !.claims.sub = u] :
        i \in {"none", "primary_intent", "unknown_key"},
        e \in {"none", "environment", "unknown_key"},
        u \in {"None", "u1"} }

\* a preference whose value is itself a map
NestedPreference == [email |-> "True", sms |-> "True"]

\* auth_claims["preferences"]
ClaimPreferences ==
    { EmptyMap, [notifications |-> NestedPreference], [tone |-> "casual"] }

\* ContextOverride.override_user_preferences
PreferenceOverrides ==
    { EmptyMap, [notifications |-> [email |-> "False"]], [detail_level |-> "expert"] }

RoleSets == { {}, {"admin", "senior"}, {"manager", "junior"} }

\* the calls in which the claims and the preference override vary
IdentityInputs ==
    { [PlainInput EXCEPT !.claims = [sub |-> u, roles |-> r, preferences |-> c],
                         !.override_user_preferences = o,
                         !.faults = f] :
        u \in {"None", "u1"}, r \in RoleSets, c \in ClaimPreferences,
        o \in PreferenceOverrides, f \in {{}, {"history_lookup_fails"}} }

\* tenant policies that name a soft wall and two hard walls
WideTenantPolicies ==
    [present |-> TRUE,
     soft_walls |-> [tone |-> "formal"],
     hard_walls |-> [allowed_model_providers |-> <<"anthropic">>,
                     forbidden_model_types   |-> <<>>]]

\* ContextOverride.override_rules
RulesOverrides ==
    { NoRulesOverride,
      [present |-> TRUE, soft_walls |-> [tone |-> "terse"],
       hard_walls |-> [allow_live_exec |-> "True"]],
      [present |-> TRUE, soft_walls |-> EmptyMap,
       hard_walls |-> [allowed_model_providers |-> <<"ollama">>]] }

\* the calls in which the tenant policies and the rules override vary
RulesInputs ==
    { [PlainInput EXCEPT !.tenant_policies = t, !.override_rules = r] :
        t \in TenantPolicies \cup {WideTenantPolicies}, r \in RulesOverrides }

\* request_body["message"] in the calls where the hint varies
BuildMessages == { <<>>, <<"D", "e", "b", "u", "g", " ", "p", "l", "a", "n">>, <<"d", "e", "s", "i", "g", "n", " ", "s", "y", "s", "t", "e", "m">> }

\* the calls in which the task-type hint, the message and the intent override vary
HintInputs ==
    { [PlainInput EXCEPT !.request_body.task_type = h, !.request_body.message = m,
                         !.override_intent = i] :
        h \in Hints, m \in BuildMessages, i \in {"none", "primary_intent"} }

\* the calls in which a domain override adds a component to what the basic
\* analysis of a backend-only repository found
RelationshipInputs ==
    { [PlainInput EXCEPT !.request_body.context.repository_path = SafePath,
                         !.fs = [exists |-> TRUE, files |-> f, dirs |-> {}],
                         !.override_domain = o] :
        f \in {{"requirements.txt"}, {"requirements.txt", "package.json"}},
        o \in {"none", "frontend_component"} }

BuildInputs ==
    CoreInputs \cup TypedOverrideInputs \cup IdentityInputs \cup RulesInputs \cup HintInputs
    \cup RelationshipInputs

\* len(narrative) and len(str(structured)) as build_exposition meets them: an
\* anonymous request, a request with identity and repository, and a request
\* with inflated roles and preferences
ExpositionSizes ==
    { [narrative_len |-> 1776,  structured_len |-> 1225],
      [narrative_len |-> 2261,  structured_len |-> 1242],
      [narrative_len |-> 24000, structured_len |-> 1300] }

\* str(e) of the exceptions that reach the handler: a plain text, a text with a
\* sensitive keyword, a text with a filesystem path, a text with a line marker
ErrorMessages ==
    { <<"b", "a", "d", " ", "i", "n", "t">>,
      <<"n", "o", " ", "K", "E", "Y">>,
      <<"d", "e", "n", "i", "e", "d", ":", " ", "/", "t", "m", "p">>,
      <<"a", "t", " ", "l", "i", "n", "e", " ", "3">> }

InitBuild ==
    /\ DomainIdle
    /\ IntentIdle
    /\ ExtraIdle
    /\ raised = <<>>
    /\ budget_max = 0
    /\ budgeted = <<>>
    /\ RouterIdle
    /\ bpc = "user"
    /\ inp \in BuildInputs
    /\ layers = [set |-> {}]
    /\ envelope = NoEnvelope
    /\ build_outcome = "pending"
    /\ failed_stage = "none"

\* the exception of a stage reaches the handler of lines 223-240
StageFailure(stage) ==
    /\ failed_stage' = stage
    /\ bpc' = "done"
    /\ layers' = layers
    /\ \E msg \in ErrorMessages :
          /\ raised' = msg
          /\ IF OnStageFailure(stage) = "fallback"
             THEN envelope' = FallbackEnvelope(msg) /\ build_outcome' = "returned"
             ELSE envelope' = envelope /\ build_outcome' = "raised"
    /\ UNCHANGED <<budget_max, budgeted>>

\* one of the five layer stages: the adapter, then the layer's override
LayerStage(stage) ==
    /\ bpc = stage
    /\ ~AwaitsCollaborator(stage, inp)
    /\ IF StageRaises(stage, inp)
       THEN StageFailure(stage)
       ELSE /\ layers' = [k \in (DOMAIN layers) \cup {stage} |->
                            IF k = stage THEN LayerOf(stage, inp)
                            ELSE IF k = "set" THEN layers.set \cup {stage}
                            ELSE layers[k]]
            /\ bpc' = StageAfter(stage)
            /\ UNCHANGED <<envelope, build_outcome, failed_stage,
                           raised, budget_max, budgeted>>
    /\ UNCHANGED inp
    /\ UNCHANGED <<domainVars, routerVars, intentVars, extraVars>>

UserStage ==
    /\ bpc = "user"
    /\ LayerStage("user")

IntentStage ==
    /\ bpc = "intent"
    /\ LayerStage("intent")

DomainStage ==
    /\ bpc = "domain"
    /\ LayerStage("domain")

RulesStage ==
    /\ bpc = "rules"
    /\ LayerStage("rules")

EnvironmentStage ==
    /\ bpc = "environment"
    /\ LayerStage("environment")

\* lines 198-221: the exposition is synthesized and the envelope returned
ExpositionStage ==
    /\ bpc = "exposition"
    /\ IF StageRaises("exposition", inp)
       THEN StageFailure("exposition")
       ELSE /\ \E size \in ExpositionSizes :
                  envelope' =
                      [built             |-> TRUE,
                       user              |-> layers.user,
                       intent            |-> layers.intent,
                       domain            |-> layers.domain,
                       rules             |-> layers.rules,
                       environment       |-> layers.environment,
                       narrative         |-> "synthesized narrative",
                       narrative_len     |-> size.narrative_len,
                       truncated         |-> FALSE,
                       structured_error  |-> NoMessage,
                       structured_len    |-> size.structured_len,
                       token_budget_used |-> TokenCount(size.narrative_len,
                                                        size.structured_len)]
            /\ build_outcome' = "returned"
            /\ bpc' = "done"
            /\ UNCHANGED <<layers, failed_stage, raised, budget_max, budgeted>>
    /\ UNCHANGED inp
    /\ UNCHANGED <<domainVars, routerVars, intentVars, extraVars>>

\* the ceilings apply_token_budget is called with: its default, the one of the
\* repository's test, and a tighter one
Budgets == {8000, 2000, 90}

\* apply_token_budget on the returned envelope, and again on its result with the
\* same ceiling
ApplyTokenBudgetStep ==
    /\ bpc = "done"
    /\ build_outcome = "returned"
    /\ Len(budgeted) < MaxApplications
    /\ \E max_tokens \in (IF budgeted = <<>> THEN Budgets ELSE {budget_max}) :
          /\ budget_max' = max_tokens
          /\ budgeted' = Append(budgeted,
                                ApplyTokenBudget(IF budgeted = <<>> THEN envelope
                                                 ELSE budgeted[Len(budgeted)],
                                                 max_tokens))
    /\ UNCHANGED <<bpc, inp, layers, envelope, build_outcome, failed_stage, raised>>
    /\ UNCHANGED <<domainVars, routerVars, intentVars, extraVars>>

NextBuild ==
    \/ ApplyTokenBudgetStep
    \/ UserStage
    \/ IntentStage
    \/ DomainStage
    \/ RulesStage
    \/ EnvironmentStage
    \/ ExpositionStage

SpecBuild == InitBuild /\ [][NextBuild]_vars

\* the calls in which a collaborator may never answer
LiveInputs ==
    { [PlainInput EXCEPT !.claims.sub = u, !.analyzer = a, !.fs = f,
                         !.request_body.context.repository_path = p,
                         !.faults = k] :
        u \in {"None", "u1"}, a \in {"none", "ok"},
        f \in {NoFiles, [exists |-> TRUE, files |-> {"package.json"}, dirs |-> {}]},
        p \in {NoPath, SafePath},
        k \in {{}, {"rate_limit_env_malformed"}} \cup {{h} : h \in HangKinds} }

InitBuildLive ==
    /\ DomainIdle
    /\ RouterIdle
    /\ IntentIdle
    /\ ExtraIdle
    /\ bpc = "user"
    /\ inp \in LiveInputs
    /\ layers = [set |-> {}]
    /\ envelope = NoEnvelope
    /\ build_outcome = "pending"
    /\ failed_stage = "none"
    /\ raised = <<>>
    /\ budget_max = 0
    /\ budgeted = <<>>

\* the stage calls the collaborator and the call does not return; the build has
\* no timer (builder.py reads no timeout), so nothing leaves this position
AwaitCollaboratorStep ==
    /\ \E stage \in {"user", "domain"} :
          /\ bpc = stage
          /\ AwaitsCollaborator(stage, inp)
    /\ bpc' = "awaiting"
    /\ UNCHANGED <<inp, layers, envelope, build_outcome, failed_stage,
                   raised, budget_max, budgeted>>
    /\ UNCHANGED <<domainVars, routerVars, intentVars, extraVars>>

NextBuildLive ==
    \/ AwaitCollaboratorStep
    \/ ApplyTokenBudgetStep
    \/ UserStage
    \/ IntentStage
    \/ DomainStage
    \/ RulesStage
    \/ EnvironmentStage
    \/ ExpositionStage

\* every step that can be taken is eventually taken
SpecBuildLive == InitBuildLive /\ [][NextBuildLive]_vars /\ WF_vars(NextBuildLive)

----------------------------------------------------------------------------
(* Properties of build_context_envelope *)

BuildReturned == bpc = "done" /\ build_outcome = "returned"

\* the path is absolute, free of ".." components and at or below the base
Confined(p) ==
    /\ StartsWith(p, <<"/">>)
    /\ IsUnder(p, BaseDir)
    /\ \A i \in 1..Len(Split(p)) : Split(p)[i] # DotDot

\* C3: build_context_envelope never raises to its caller: whatever stage fails
\* (a source adapter, an override application or the exposition synthesis), it
\* returns an envelope, and after a failure that envelope has every layer at its
\* default value, primary intent error_recovery, the fixed narrative and token
\* usage 100.
C3_BuildNeverRaises ==
    /\ build_outcome # "raised"
    /\ bpc = "done" =>
          /\ build_outcome = "returned"
          /\ envelope.built
          /\ failed_stage # "none" =>
                /\ envelope.user = DefaultUser
                /\ envelope.domain = DefaultDomain
                /\ envelope.rules = DefaultRules
                /\ envelope.environment = DefaultEnvironment
                /\ envelope.intent.primary_intent = "error_recovery"
                /\ envelope.narrative = FallbackNarrative
                /\ envelope.token_budget_used = 100

\* C3's case: the first stage failed, after no layer had been built
C3_Witness ==
    /\ bpc = "done"
    /\ failed_stage = "user"
    /\ layers.set = {}
    /\ envelope.built

\* C8: in every returned envelope a non-empty domain.repo_path is a path that
\* passed the confinement validation, or else the domain layer carries the
\* invalid-path summary; a domain override cannot place an unvalidated path in
\* the envelope.
C8_EnvelopeRepoPathValidated ==
    (BuildReturned /\ envelope.domain.repo_path # NoPath) =>
        \/ Confined(envelope.domain.repo_path)
        \/ envelope.domain.repo_summary = InvalidSummary

\* C9: the repository path supplied in the request body is the path the domain
\* adapter validates: "../../etc" gives the invalid-path summary with empty
\* components, and an accepted path shows in domain.repo_path.
C9_RequestPathIsValidated ==
    (/\ BuildReturned
     /\ failed_stage = "none"
     /\ inp.override_domain = "none"
     /\ inp.request_body.context.repository_path = NoPath) =>
        /\ inp.request_body.repository_path = EtcPath =>
              /\ envelope.domain.repo_summary = InvalidSummary
              /\ envelope.domain.key_components = {}
        /\ (inp.request_body.repository_path = SafePath /\ inp.fs.exists) =>
              envelope.domain.repo_path = ValidateRepoPath(SafePath)

\* the failures that arise inside one source adapter
AdapterFaults ==
    {"history_lookup_fails", "analyzer_fails", "rate_limit_env_malformed", "load_probe_fails"}

\* C10: a failure inside one source adapter degrades only that adapter's layer:
\* the other layers of the returned envelope keep their normally computed
\* values and the intent is not forced to error_recovery.
C10_AdapterFailureDegradesOnlyItsLayer ==
    (/\ BuildReturned
     /\ inp.faults # {}
     /\ inp.faults \subseteq AdapterFaults
     /\ inp.override_intent # "unknown_key"
     /\ inp.override_domain # "malformed_components") =>
        /\ envelope.intent = IntentLayer(inp)
        /\ envelope.intent.primary_intent # "error_recovery"
        /\ envelope.rules = RulesLayer(inp)
        /\ "history_lookup_fails" \notin inp.faults => envelope.user = UserLayer(inp)
        /\ "analyzer_fails" \notin inp.faults => envelope.domain = DomainLayer(inp)
        /\ {"rate_limit_env_malformed", "load_probe_fails"} \cap inp.faults = {} =>
              envelope.environment = EnvironmentLayer(inp)

\* the exception message has a sensitive keyword, a path or a stack-trace marker
IsSensitiveMessage(msg) ==
    \/ \E keyword \in SensitiveKeywords : Contains(Lower(msg), keyword)
    \/ Contains(msg, <<"/">>)
    \/ Contains(Lower(msg), <<"t", "r", "a", "c", "e", "b", "a", "c", "k">>)
    \/ Contains(Lower(msg), <<"l", "i", "n", "e", " ">>)

\* C11: in the fallback envelope the error description of the structured
\* payload is sanitized: when the exception message has a sensitive keyword, a
\* filesystem path or a stack-trace marker, the payload holds the fixed generic
\* message and not the exception text.
C11_FallbackErrorSanitized ==
    (BuildReturned /\ failed_stage # "none") =>
        /\ envelope.structured_error = SanitizeErrorMessage(raised)
        /\ IsSensitiveMessage(raised) =>
              /\ envelope.structured_error = GenericErrorMessage
              /\ envelope.structured_error # raised

\* C12: apply_token_budget on an envelope whose usage is at most max changes
\* no field of it, and applying it twice with the same max gives the same
\* envelope as applying it once, for compliant and over-budget envelopes.
C12_TokenBudgetIdempotent ==
    /\ (Len(budgeted) >= 1 /\ envelope.token_budget_used <= budget_max) =>
            budgeted[1] = envelope
    /\ Len(budgeted) >= 2 => budgeted[2] = budgeted[1]

\* C12's case: an over-budget envelope was pruned and the budget applied again
C12_Witness ==
    /\ Len(budgeted) = 2
    /\ envelope.token_budget_used > budget_max
    /\ budgeted[1].truncated
    /\ budgeted[1] # envelope

\* C13: apply_token_budget on an envelope whose usage exceeds max yields a
\* reported usage of at most max and a narrative, truncation marker included,
\* strictly shorter than the original narrative.
C13_OverBudgetNarrativeShorter ==
    (Len(budgeted) >= 1 /\ envelope.token_budget_used > budget_max) =>
        /\ budgeted[1].token_budget_used <= budget_max
        /\ budgeted[1].narrative_len < envelope.narrative_len

\* C14: after apply_token_budget on an over-budget envelope of
\* build_context_envelope, the token estimate recomputed from the resulting
\* narrative and the structured map does not exceed max.
C14_RecomputedEstimateWithinMax ==
    (Len(budgeted) >= 1 /\ envelope.token_budget_used > budget_max) =>
        TokenCount(budgeted[1].narrative_len, budgeted[1].structured_len) <= budget_max

\* C15: an override key that is not a field of its layer is ignored: the build
\* returns a normal envelope in which that key changed nothing, for the intent
\* layer and for the environment layer alike.
C15_UnknownOverrideKeyIgnored ==
    (/\ BuildReturned
     /\ inp.faults = {}
     /\ inp.override_domain # "malformed_components"
     /\ (inp.override_intent = "unknown_key" \/ inp.override_environment = "unknown_key")) =>
        /\ failed_stage = "none"
        /\ inp.override_intent = "unknown_key" =>
              envelope.intent = IntentLayer([inp EXCEPT !.override_intent = "none"])
        /\ inp.override_environment = "unknown_key" =>
              envelope.environment =
                  EnvironmentLayer([inp EXCEPT !.override_environment = "none"])

\* the preferences build_user_context computes, before any override
ComputedPreferences ==
    BuildUserContext(inp.claims, "history_lookup_fails" \in inp.faults).preferences

\* C16: an identity preference override is deep-merged onto the computed
\* preferences: where the computed value and the override value of a key are
\* both maps, the nested keys the override does not name are preserved, and
\* top-level keys the override does not name keep their computed values.
C16_PreferenceOverrideDeepMerged ==
    (BuildReturned /\ failed_stage = "none") =>
        /\ \A key \in (DOMAIN ComputedPreferences) \ (DOMAIN inp.override_user_preferences) :
              /\ key \in DOMAIN envelope.user.preferences
              /\ envelope.user.preferences[key] = ComputedPreferences[key]
        /\ ("notifications" \in (DOMAIN ComputedPreferences)
                                    \cap (DOMAIN inp.override_user_preferences)) =>
              \A nested \in (DOMAIN ComputedPreferences["notifications"])
                                \ (DOMAIN inp.override_user_preferences["notifications"]) :
                  /\ nested \in DOMAIN envelope.user.preferences["notifications"]
                  /\ envelope.user.preferences["notifications"][nested]
                        = ComputedPreferences["notifications"][nested]

DefaultPreferenceKeys == {"tone", "detail_level", "format", "include_examples", "language"}

\* the faults an adapter contains within itself
ContainedFaults == {"history_lookup_fails", "analyzer_fails", "load_probe_fails"}

BaselineWalls(kind) == IF kind = "soft_walls" THEN BaselineSoftWalls ELSE BaselineHardWalls

\* C17: each key of soft_walls and hard_walls in the returned envelope has the
\* request override's value if the override names it, else the tenant policy's
\* value if it names it, else the baseline value; a tenant-supplied list
\* replaces the baseline list entirely.
C17_WallsPrecedence ==
    (BuildReturned /\ failed_stage = "none") =>
        \A kind \in {"soft_walls", "hard_walls"} :
            LET over   == inp.override_rules[kind]
                tenant == inp.tenant_policies[kind]
                walls  == envelope.rules[kind]
            IN  /\ DOMAIN walls = (DOMAIN BaselineWalls(kind)) \cup (DOMAIN tenant)
                                                                \cup (DOMAIN over)
                /\ \A key \in DOMAIN walls :
                      walls[key] = IF key \in DOMAIN over THEN over[key]
                                   ELSE IF key \in DOMAIN tenant THEN tenant[key]
                                   ELSE BaselineWalls(kind)[key]

\* C17's case: the tenant replaced the baseline provider list and the request
\* override replaced the tenant's
C17_Witness ==
    /\ BuildReturned
    /\ failed_stage = "none"
    /\ inp.tenant_policies.present
    /\ inp.override_rules.present
    /\ "allowed_model_providers" \in DOMAIN inp.tenant_policies.hard_walls
    /\ "allowed_model_providers" \in DOMAIN inp.override_rules.hard_walls
    /\ envelope.rules.hard_walls["allowed_model_providers"] = <<"ollama">>

\* C18: with a non-empty task-type hint the primary intent is the hint
\* lower-cased with spaces replaced by underscores and the confidence is 0.9,
\* for every message text, and build_context_envelope with no intent override
\* carries that intent into the envelope.
C18_HintDeterminesIntent ==
    (/\ BuildReturned
     /\ failed_stage = "none"
     /\ inp.request_body.task_type # NoHint
     /\ inp.override_intent = "none") =>
        LET hint == inp.request_body.task_type IN
        /\ \E i \in 1..Len(IntentTexts) : IntentTexts[i].text = envelope.intent.primary_intent
        /\ LET name == CharsOf(envelope.intent.primary_intent) IN
              /\ Len(name) = Len(hint)
              /\ \A i \in 1..Len(hint) :
                    IF hint[i] = " " THEN name[i] = "_"
                    ELSE name[i] = LowerChar(hint[i])
        /\ envelope.intent.confidence_score = [num |-> 9, den |-> 10]

\* C18's case: a hint with capitals and a space, and a message that would
\* classify as another intent
C18_Witness ==
    /\ BuildReturned
    /\ failed_stage = "none"
    /\ inp.override_intent = "none"
    /\ inp.request_body.task_type = <<"R", "e", "p", "o", " ", "A", "n", "a", "l", "y", "s", "i", "s">>
    /\ MatchedCategories(Lower(inp.request_body.message)) # {}
    /\ envelope.intent.primary_intent = "repo_analysis"

----------------------------------------------------------------------------
(* One call of sanitize_error_message: C21 *)

\* the words error messages are made of
ErrorWords ==
    { <<"b", "a", "d">>,
      <<"P", "A", "S", "S", "W", "O", "R", "D">>,
      <<"k", "e", "y">>,
      <<"l", "i", "n", "e">>,
      <<"T", "r", "a", "c", "e", "b", "a", "c", "k">>,
      <<"/", "t", "m", "p">>,
      <<"C", ":", "\\", "x">>,
      <<"o", "k">>,
      <<"d", "b">>,
      <<"t", "i", "m", "e", "o", "u", "t">> }

RECURSIVE ErrorMessagesOf(_)
\* the messages of exactly n words, joined by single spaces
ErrorMessagesOf(n) ==
    IF n = 0 THEN { <<>> }
    ELSE IF n = 1 THEN ErrorWords
    ELSE { m \o <<" ">> \o w : m \in ErrorMessagesOf(n - 1), w \in ErrorWords }

SanitizerInputs == UNION { ErrorMessagesOf(n) : n \in 0..MaxErrorWords }

\* sanitize_error_message(message) under the configured switch
SanitizeErrorMessageConfigured(enabled, msg) ==
    IF ~enabled THEN msg ELSE SanitizeErrorMessage(msg)

InitSanitize ==
    /\ DomainIdle
    /\ RouterIdle
    /\ BuildIdle
    /\ IntentIdle
    /\ PairIdle
    /\ ParamIdle
    /\ spc = "start"
    /\ sanitize_error_messages \in BOOLEAN
    /\ error_message \in SanitizerInputs
    /\ sanitized = <<>>

SanitizeStep ==
    /\ spc = "start"
    /\ spc' = "done"
    /\ sanitized' = SanitizeErrorMessageConfigured(sanitize_error_messages, error_message)
    /\ UNCHANGED <<sanitize_error_messages, error_message>>
    /\ UNCHANGED <<domainVars, routerVars, buildVars, intentVars, pairVars, paramVars>>

NextSanitize == SanitizeStep

SpecSanitize == InitSanitize /\ [][NextSanitize]_vars

\* word occurs in msg at position i when letter case is disregarded
OccursAt(msg, word, i) ==
    /\ i + Len(word) - 1 <= Len(msg)
    /\ \A j \in 1..Len(word) : LowerChar(msg[i + j - 1]) = word[j]

Mentions(msg, word) == \E i \in 1..Len(msg) : OccursAt(msg, word, i)

\* the message holds a sensitive keyword, a path separator or a stack-trace marker
MustBeReplaced(msg) ==
    \/ \E keyword \in SensitiveKeywords : Mentions(msg, keyword)
    \/ \E i \in 1..Len(msg) : msg[i] \in {"/", "\\"}
    \/ Mentions(msg, <<"t", "r", "a", "c", "e", "b", "a", "c", "k">>)
    \/ Mentions(msg, <<"l", "i", "n", "e", " ">>)

\* C21 as stated: the fixed message for every message with a sensitive
\* keyword, a path separator or a stack-trace marker, every other message
\* unchanged, whatever the configuration.
C21_SanitizedForEveryMessage ==
    spc = "done" =>
        /\ sanitized = IF MustBeReplaced(error_message) THEN GenericErrorMessage ELSE error_message
        /\ sanitized \in {error_message, GenericErrorMessage}

\* C21 (amended): with sanitize_error_messages switched on (its default),
\* sanitize_error_message returns the fixed generic message for every message
\* that holds a sensitive keyword, a path separator or a stack-trace marker and
\* returns every other message unchanged; with the switch in either position
\* the result is the input or the fixed message.
C21_SanitizedWhenSwitchedOn ==
    spc = "done" =>
        /\ sanitize_error_messages =>
              sanitized = IF MustBeReplaced(error_message) THEN GenericErrorMessage ELSE error_message
        /\ sanitized \in {error_message, GenericErrorMessage}

\* C21's case: a keyword in capitals was replaced while the switch is on
C21_Witness ==
    /\ spc = "done"
    /\ sanitize_error_messages
    /\ Contains(error_message, <<"P", "A", "S", "S", "W", "O", "R", "D">>)
    /\ ~Contains(error_message, <<"/">>)
    /\ sanitized = GenericErrorMessage

----------------------------------------------------------------------------
(* Progress of build_context_envelope: C22 *)

\* C22: build_context_envelope eventually returns even when an injected
\* collaborator (history lookup or domain analysis) never answers: it returns
\* the fail-open fallback envelope.
C22_HungBuildReturnsFallback ==
    (bpc = "awaiting") ~>
        (/\ bpc = "done"
         /\ build_outcome = "returned"
         /\ envelope = FallbackEnvelope(raised))

\* a build with collaborators that answer does return
C22_AnsweredBuildReturns ==
    (bpc = "user" /\ inp.faults \cap HangKinds = {}) ~> (build_outcome = "returned")

----------------------------------------------------------------------------
(* Several builds in one process: C23.  A dict is an object of the heap; a    *)
(* key is tagged with the build whose arguments supplied it (0: supplied by  *)
(* the code's own baselines or by a collaborator).                            *)

Builds == 1..MaxBuilds

\* a key of a map and where it came from
Key(owner, name) == [of |-> owner, name |-> name]

\* the analyzer's result map (repo_analyzer_client.get_repo_summary()["components"])
AnalysisMap == [of |-> 0, name |-> "analysis"]

\* the dicts a build creates for itself
OwnObject(b, name) == [of |-> b, name |-> name]

Objects ==
    {AnalysisMap} \cup
    { OwnObject(b, n) : b \in Builds,
                        n \in {"preferences", "key_components", "soft_walls", "hard_walls"} }

\* the analyzer: not injected, answering each call with a new map, or handing
\* the same map to every caller
AnalyzerKinds == {"none", "fresh", "shared"}

\* what one build is given: a domain override with key_components, and the
\* other overrides together with tenant policies
PairArguments == [components : BOOLEAN, others : BOOLEAN]

InitPair ==
    /\ DomainIdle
    /\ RouterIdle
    /\ BuildIdle
    /\ IntentIdle
    /\ SanitizeIdle
    /\ ParamIdle
    /\ ppc = [b \in Builds |-> "user"]
    /\ \E a \in AnalyzerKinds : \E args \in [Builds -> PairArguments] :
          pair_in = [analyzer |-> a, builds |-> args]
    /\ heap = [o \in Objects |->
                 IF o = AnalysisMap /\ pair_in.analyzer = "shared"
                 THEN {Key(0, "api"), Key(0, "worker")} ELSE {}]
    /\ held = [b \in Builds |-> OwnObject(b, "key_components")]

\* user_profile.py lines 33-80 and builder.py lines 158-160: the preferences are
\* a dict literal of the call, updated in place with the override
PairUserStep(b) ==
    /\ ppc[b] = "user"
    /\ heap' = [heap EXCEPT ![OwnObject(b, "preferences")] =
                    {Key(0, "tone"), Key(0, "detail_level")} \cup
                    (IF pair_in.builds[b].others THEN {Key(b, "preference")} ELSE {})]
    /\ ppc' = [ppc EXCEPT ![b] = "domain"]
    /\ UNCHANGED <<pair_in, held>>

\* domain_graph.py lines 60-67 and 100-104: key_components is a new dict, or
\* the map the analyzer returned (assigned, not copied)
PairDomainAdapterStep(b) ==
    /\ ppc[b] = "domain"
    /\ held' = [held EXCEPT ![b] = IF pair_in.analyzer = "shared" THEN AnalysisMap
                                    ELSE OwnObject(b, "key_components")]
    /\ heap' = [heap EXCEPT ![OwnObject(b, "key_components")] =
                    IF pair_in.analyzer = "fresh"
                    THEN {Key(0, "api"), Key(0, "worker")} ELSE {}]
    /\ ppc' = [ppc EXCEPT ![b] = "domain_override"]
    /\ UNCHANGED pair_in

\* builder.py lines 177-181: domain.key_components.update(...) on the dict the
\* layer refers to
PairDomainOverrideStep(b) ==
    /\ ppc[b] = "domain_override"
    /\ heap' = [heap EXCEPT ![held[b]] =
                    @ \cup (IF pair_in.builds[b].components
                            THEN {Key(b, "component")} ELSE {})]
    /\ ppc' = [ppc EXCEPT ![b] = "rules"]
    /\ UNCHANGED <<pair_in, held>>

\* rules.py lines 26-113 and builder.py lines 184-189: the walls are dict
\* literals of the call, updated with the tenant policies, then with the override
PairRulesStep(b) ==
    /\ ppc[b] = "rules"
    /\ heap' = [heap EXCEPT
                    ![OwnObject(b, "soft_walls")] =
                        {Key(0, "tone")} \cup
                        (IF pair_in.builds[b].others
                         THEN {Key(b, "tenant_soft"), Key(b, "override_soft")} ELSE {}),
                    ![OwnObject(b, "hard_walls")] =
                        {Key(0, "allowed_model_providers")} \cup
                        (IF pair_in.builds[b].others
                         THEN {Key(b, "tenant_hard"), Key(b, "override_hard")} ELSE {})]
    /\ ppc' = [ppc EXCEPT ![b] = "done"]
    /\ UNCHANGED <<pair_in, held>>

PairFrame ==
    UNCHANGED <<domainVars, routerVars, buildVars, intentVars, sanitizeVars, paramVars>>

NextPair ==
    \/ \E b \in Builds : PairUserStep(b) /\ PairFrame
    \/ \E b \in Builds : PairDomainAdapterStep(b) /\ PairFrame
    \/ \E b \in Builds : PairDomainOverrideStep(b) /\ PairFrame
    \/ \E b \in Builds : PairRulesStep(b) /\ PairFrame

SpecPair == InitPair /\ [][NextPair]_vars

\* the dicts build b's envelope refers to
EnvelopeObjects(b) ==
    { OwnObject(b, "preferences"), held[b],
      OwnObject(b, "soft_walls"), OwnObject(b, "hard_walls") }

\* no key of build b's envelope was supplied by another build's arguments
OnlyOwnKeys(b) ==
    \A o \in EnvelopeObjects(b) : \A k \in heap[o] : k.of \in {0, b}

\* C23: with builds interleaved in any order and sharing the collaborators,
\* the overrides and tenant policies given to one build never appear in any
\* layer of another build's envelope, also when the domain-analysis
\* collaborator hands the same result map to both builds.
C23_BuildsIsolated ==
    \A b \in Builds : ppc[b] = "done" => OnlyOwnKeys(b)

\* with an analyzer that answers each call with a new map, or none, the builds
\* are isolated
C23_IsolatedWithoutSharedResult ==
    pair_in.analyzer # "shared" => \A b \in Builds : ppc[b] = "done" => OnlyOwnKeys(b)

----------------------------------------------------------------------------
(* The selection state machine, the override and the rationale: C24..C27 *)

\* C24: every run of plan_with_context is a path of the selection state
\* machine: RESOLVED is reached only after the filter passed, or after a filter
\* rejection followed by the fallback search; the fallback search is entered
\* only from a filter rejection; a registered override candidate is filtered
\* before it is returned.
C24_SelectionFollowsStateMachine ==
    \A i \in 1..Len(stages) :
        /\ stages[i] = "RESOLVED" =>
              \/ i > 1 /\ stages[i - 1] = "FILTER_PASSED"
              \/ i > 2 /\ stages[i - 1] = "FALLBACK_SEARCH" /\ stages[i - 2] = "FILTER_REJECTED"
        /\ stages[i] = "FALLBACK_SEARCH" => i > 1 /\ stages[i - 1] = "FILTER_REJECTED"
        /\ (stages[i] = "OVERRIDE_APPLIED" /\ i < Len(stages)) =>
              stages[i + 1] \in {"FILTER_PASSED", "FILTER_REJECTED"}

\* the part of C24 about the fallback search: it is entered only from a filter
\* rejection, and a run without the override follows the state machine
C24_PolicyRunsFollowStateMachine ==
    \A i \in 1..Len(stages) :
        /\ stages[i] = "FALLBACK_SEARCH" => i > 1 /\ stages[i - 1] = "FILTER_REJECTED"
        /\ (stages[i] = "RESOLVED" /\ stages[2] # "OVERRIDE_APPLIED") =>
              \/ stages[i - 1] = "FILTER_PASSED"
              \/ i > 2 /\ stages[i - 1] = "FALLBACK_SEARCH" /\ stages[i - 2] = "FILTER_REJECTED"

\* the context routing rules name an override candidate
OverrideNamed == ctx.environment = "production" /\ ctx.model_routing_mode = "local-preferred"

\* the registry holds the candidate the rules name
OverrideRegistered == \E i \in 1..Len(registry) : registry[i].model_id = "local/claude-2.1"

\* the context routing rules, in the order they are evaluated
RoutingRules ==
    << [fires |-> ctx.environment = "production",
        text  |-> "Production environment - prefer proven models"],
       [fires |-> ctx.expertise_level = "expert",
        text  |-> "Expert user - can handle advanced models"],
       [fires |-> ctx.expertise_level = "beginner",
        text  |-> "Beginner user - prefer patient, explanatory models"],
       [fires |-> ctx.security_intent,
        text  |-> "Security task - require compliance-approved models"],
       [fires |-> ctx.budget_conscious,
        text  |-> "Budget conscious - prefer cost-effective models"],
       [fires |-> ctx.high_load,
        text  |-> "High system load - prefer lightweight models"] >>

Fires(rule) == rule.fires

TextOfRule(rule) == rule.text

\* the rationale strings of the rules that fired, in rule order
FiredRationales ==
    LET fired == SelectSeq(RoutingRules, Fires)
    IN  [i \in 1..Len(fired) |-> fired[i].text]

RECURSIVE IsSubsequence(_, _)
\* the elements of sub occur in seq in the same order
IsSubsequence(sub, seq) ==
    IF sub = <<>> THEN TRUE
    ELSE IF seq = <<>> THEN FALSE
    ELSE IF Head(sub) = Head(seq) THEN IsSubsequence(Tail(sub), Tail(seq))
    ELSE IsSubsequence(sub, Tail(seq))

\* the policy engine was asked (and chose, or raised)
PolicyEngineConsulted ==
    \/ Len(stages) >= 2 /\ stages[2] = "POLICY_SELECTED"
    \/ rpc \in {"plan_raised", "raised"} /\ stages = <<"PLANNING">>

\* C25: when the context routing rules name an override candidate (production
\* with routing mode local-preferred) and it is registered, plan_with_context
\* returns exactly it with score 1.0 and the context rationale, without
\* consulting the policy engine; otherwise the decision is delegated to the
\* policy engine.
C25_RegisteredOverrideReturned ==
    rpc # "planning" =>
        IF OverrideNamed /\ OverrideRegistered
        THEN /\ choice.found
             /\ choice.model.model_id = "local/claude-2.1"
             /\ \E i \in 1..Len(registry) : registry[i] = choice.model
             /\ choice.score = OverrideScore
             /\ choice.reasons = FiredRationales
             /\ ~PolicyEngineConsulted
             /\ SubSeq(stages, 1, 3) = <<"PLANNING", "OVERRIDE_APPLIED", "RESOLVED">>
        ELSE PolicyEngineConsulted

\* C25's case: the override was named, registered and returned, with more than
\* one routing rule fired
C25_Witness ==
    /\ rpc = "plan_returned"
    /\ OverrideNamed
    /\ OverrideRegistered
    /\ Len(registry) > 1
    /\ Len(FiredRationales) > 1
    /\ choice.found
    /\ choice.score = OverrideScore

\* C26: every candidate returned by plan_with_context carries a rationale that
\* contains, in rule order, the rationale string of every context routing rule
\* that fired, whether the candidate came from the override, the policy engine
\* or the fallback search.
C26_RationaleCarriesFiredRules ==
    CandidateReturned => IsSubsequence(FiredRationales, choice.reasons)

\* C26 restricted to the override: the rationale is the fired rules', in order
C26_OverrideCarriesFiredRules ==
    (CandidateReturned /\ stages[2] = "OVERRIDE_APPLIED") =>
        IsSubsequence(FiredRationales, choice.reasons)

\* C27: when the envelope's primary intent is security-class, plan_with_context
\* returns only a candidate carrying the compliance-approved flag, or no
\* candidate.
C27_SecurityIntentRequiresCompliance ==
    (PlanReturned /\ ctx.security_intent) =>
        (choice.found => choice.model.compliance_approved)

----------------------------------------------------------------------------
(* One call of _adjust_parameters_with_context: C28.  Temperatures are in     *)
(* tenths.                                                                    *)

\* adjusted.get("temperature", 0.7)
DefaultTemperature == 7

\* min(..., 0.5) for a beginner
BeginnerTemperature == 5

\* max(..., 0.8) for an expert
ExpertTemperature == 8

\* adjusted.get("max_tokens", 2000)
DefaultMaxTokens == 2000

\* max(..., 4000) for the design and implementation intents
LongAnswerTokens == 4000

Min(a, b) == IF a <= b THEN a ELSE b

Max(a, b) == IF a >= b THEN a ELSE b

\* dict.get(key, default)
Get(map, key, default) == IF key \in DOMAIN map THEN map[key] ELSE default

\* map[key] = value on a copy of the map
Put(map, key, value) ==
    [k \in (DOMAIN map) \cup {key} |-> IF k = key THEN value ELSE map[k]]

\* _adjust_parameters_with_context(params, context, model): the map returned
AdjustParametersWithContext(pm, c) ==
    LET copy == pm
        by_expertise ==
            IF c.expertise_level = "beginner"
            THEN Put(copy, "temperature",
                     Min(Get(copy, "temperature", DefaultTemperature), BeginnerTemperature))
            ELSE IF c.expertise_level = "expert"
            THEN Put(copy, "temperature",
                     Max(Get(copy, "temperature", DefaultTemperature), ExpertTemperature))
            ELSE copy
        by_intent ==
            IF c.primary_intent \in {"architecture_design", "implementation"}
            THEN Put(by_expertise, "max_tokens",
                     Max(Get(by_expertise, "max_tokens", DefaultMaxTokens), LongAnswerTokens))
            ELSE by_expertise
        max_tokens == Get(c.hard_walls, "max_tokens_per_response", 0)
    IN  IF max_tokens # 0 /\ Get(by_intent, "max_tokens", 0) > max_tokens
        THEN Put(by_intent, "max_tokens", max_tokens)
        ELSE by_intent

\* the caller's maps: each of temperature and max_tokens given or not
ParamMaps ==
    { [k \in keys |-> IF k = "temperature" THEN t ELSE n] :
        keys \in SUBSET {"temperature", "max_tokens"}, t \in {3, 7, 15}, n \in {1000, 6000} }

\* the hard walls' ceilings: the baseline's (4000, upper bound 1.0), a tenant's
\* tighter ones, or none declared; temperature_range stands for its upper bound
CeilingMaps ==
    { [k \in keys |-> IF k = "temperature_range" THEN u ELSE n] :
        keys \in SUBSET {"temperature_range", "max_tokens_per_response"},
        u \in {10, 5}, n \in {4000, 1500} }

ParamContexts ==
    [expertise_level : {"beginner", "intermediate", "expert"},
     primary_intent  : {"architecture_design", "implementation", "general_assistance"},
     hard_walls      : CeilingMaps]

InitParams ==
    /\ DomainIdle
    /\ RouterIdle
    /\ BuildIdle
    /\ IntentIdle
    /\ SanitizeIdle
    /\ PairIdle
    /\ apc = "start"
    /\ params \in ParamMaps
    /\ param_ctx \in ParamContexts
    /\ adjusted = <<>>

\* lines 323-340: the adjustments are made on params.copy(); the caller's map
\* is not written
AdjustStep ==
    /\ apc = "start"
    /\ apc' = "done"
    /\ adjusted' = AdjustParametersWithContext(params, param_ctx)
    /\ UNCHANGED <<params, param_ctx>>
    /\ UNCHANGED <<domainVars, routerVars, buildVars, intentVars, sanitizeVars, pairVars>>

NextParams == AdjustStep

SpecParams == InitParams /\ [][NextParams]_vars

\* C28: in the parameters produced, every numeric parameter for which the hard
\* walls declare a ceiling respects it: max_tokens, when present, is at most
\* max_tokens_per_response, and temperature is at most the upper bound of
\* temperature_range.
C28_ParametersWithinCeilings ==
    apc = "done" =>
        /\ ("max_tokens" \in DOMAIN adjusted
              /\ "max_tokens_per_response" \in DOMAIN param_ctx.hard_walls) =>
                 adjusted["max_tokens"] <= param_ctx.hard_walls["max_tokens_per_response"]
        /\ ("temperature" \in DOMAIN adjusted
              /\ "temperature_range" \in DOMAIN param_ctx.hard_walls) =>
                 adjusted["temperature"] <= param_ctx.hard_walls["temperature_range"]

\* the part of C28 about max_tokens: it is at most max_tokens_per_response
\* whenever that ceiling is declared
C28_MaxTokensWithinCeiling ==
    (/\ apc = "done"
     /\ "max_tokens" \in DOMAIN adjusted
     /\ "max_tokens_per_response" \in DOMAIN param_ctx.hard_walls) =>
        adjusted["max_tokens"] <= param_ctx.hard_walls["max_tokens_per_response"]

----------------------------------------------------------------------------
(* The domain relationship map: C29 *)

\* the relationship map agrees with the component map
RelationshipsConsistent(domain) ==
    /\ domain.entity_relationships.components = domain.key_components
    /\ "frontend_backend" \in domain.entity_relationships.edges
          <=> {"frontend", "backend"} \subseteq domain.key_components

\* C29: in every envelope returned by build_context_envelope the domain
\* relationship map is consistent with the component map: its component list
\* equals the names in key_components and it holds the frontend-backend edge
\* exactly when both frontend and backend are in key_components, including
\* after a domain override has merged additional components.
C29_RelationshipsMatchComponents ==
    BuildReturned => RelationshipsConsistent(envelope.domain)

\* without a key_components override the relationship map is consistent
C29_ConsistentWithoutComponentOverride ==
    (BuildReturned /\ inp.override_domain \notin {"key_components", "frontend_component"}) =>
        RelationshipsConsistent(envelope.domain)

----------------------------------------------------------------------------
(* The hard walls of a degraded envelope: C30 *)

\* lines 272-275 of _passes_context_filters: the allow-list test rejects the provider
AllowListRejects(walls, provider) ==
    LET allowed_providers == IF "allowed_model_providers" \in DOMAIN walls
                             THEN walls["allowed_model_providers"] ELSE <<>>
    IN  allowed_providers # <<>> /\ provider \notin SeqToSet(allowed_providers)

\* C30: every envelope returned by build_context_envelope, the fail-open
\* fallback envelope included, carries the baseline hard walls (in particular
\* a non-empty allowed_model_providers list) unless a tenant policy or an
\* override replaced them, so that the router's allow-list filter rejects on a
\* degraded envelope every provider it rejects on the normally built envelope
\* for the same request.
C30_DegradedEnvelopeKeepsHardWalls ==
    BuildReturned =>
        LET walls == envelope.rules.hard_walls IN
        /\ \A key \in DOMAIN BaselineHardWalls :
              (/\ key \notin DOMAIN inp.tenant_policies.hard_walls
               /\ key \notin DOMAIN inp.override_rules.hard_walls) =>
                  key \in DOMAIN walls /\ walls[key] = BaselineHardWalls[key]
        /\ "tenant_policies_malformed" \notin inp.faults =>
              \A provider \in Clients :
                  AllowListRejects(RulesLayer(inp).hard_walls, provider) =>
                      AllowListRejects(walls, provider)

\* the normally built envelope carries the baseline hard walls that neither the
\* tenant policy nor the override names
C30_NormalEnvelopeKeepsHardWalls ==
    (BuildReturned /\ failed_stage = "none") =>
        \A key \in DOMAIN BaselineHardWalls :
            (/\ key \notin DOMAIN inp.tenant_policies.hard_walls
             /\ key \notin DOMAIN inp.override_rules.hard_walls) =>
                /\ key \in DOMAIN envelope.rules.hard_walls
                /\ envelope.rules.hard_walls[key] = BaselineHardWalls[key]

====
